---- MODULE Spec2Model ----
(***************************************************************************)
(* Eurotherm2404 Modbus-RTU driver (pymeasure/instruments/eurotherm) over  *)
(* a serial link to one temperature controller.                            *)
(*                                                                         *)
(* Bytes are naturals 0..255, byte strings are sequences of them.  Python  *)
(* text (command strings, str(int)) is a sequence of one-character         *)
(* strings, so that split(","), int() and str() are computed.              *)
(***************************************************************************)
EXTENDS Integers, Sequences, FiniteSets, TLC

VARIABLES
    address,               \* self.address
    write_delay,           \* self.write_delay
    read_delay,            \* self.read_delay
    query_delay,           \* self.query_delay
    last_write_timestamp,  \* self.last_write_timestamp
    last_read_timestamp,   \* self.last_read_timestamp
    now,                   \* time.time(), in ticks
    req,                   \* frames handed to write_bytes, not yet answered
    rx,                    \* response bytes on the link, not yet read
    call,                  \* the most recent driver call and its outcome
    sent,                  \* the most recent response the device sent
    prev,                  \* the previous completed read(): when it ended
    arg,                   \* what the caller asked for in its last call
    pc,                    \* where the caller is in a property access or ping
    crcIn,                 \* argument of a CRC16 call
    crcOut,                \* its result
    preamble_array,        \* Tek371A: the preamble fields handed to
                           \* WaveformPreamble
    waveform_preamble,     \* Tek371A: the WaveformPreamble constructed
    curve,                 \* Tek371A: the Curve constructed
    written,               \* Tek371A: the commands get_curve wrote
    bytes_count,           \* Tek371A: the argument of the last read_bytes
    srq_called,            \* Tek371A: self.srq_called
    installed,             \* VISA: handlers installed for service requests
    enabled,               \* VISA: the service-request event is enabled
    dispatch,              \* VISA: handler invocations still to run
    waiter,                \* where the caller is in wait_for_srq
    requests,              \* service requests the instrument has raised
    returns,               \* returns of wait_for_srq
    flagSets,              \* times a handler set srq_called since it was
                           \* last cleared
    consumed               \* requests raised when wait_for_srq last returned

\* the state of the curve tracer's decoders
link371 == <<written, bytes_count>>

\* the service-request flag, its handlers and its waiter
srqs == <<srq_called, installed, enabled, dispatch, waiter, requests, returns,
          flagSets, consumed>>

tek == <<preamble_array, waveform_preamble, curve, link371, srqs>>

vars == <<address, write_delay, read_delay, query_delay,
          last_write_timestamp, last_read_timestamp, now, req, rx, call,
          sent, prev, arg, pc, crcIn, crcOut, tek>>

\* no preamble parsed, no curve decoded
NoPreamble == [made |-> FALSE]
NoCurve == [made |-> FALSE]
\* Tektronix371A.__init__, line 325: srq_called False; nothing installed,
\* nobody waiting
NoSrq ==
    /\ srq_called = FALSE
    /\ installed = 0
    /\ enabled = FALSE
    /\ dispatch = 0
    /\ waiter = "idle"
    /\ requests = 0
    /\ returns = 0
    /\ flagSets = 0
    /\ consumed = 0

\* nothing written, nothing read
NoLink371 ==
    /\ written = <<>>
    /\ bytes_count = 0

NoTek ==
    /\ preamble_array = <<>>
    /\ waveform_preamble = NoPreamble
    /\ curve = NoCurve
    /\ NoLink371
    /\ NoSrq

----------------------------------------------------------------------------
(* Integer and byte helpers (Python int operators as the code uses them)   *)

Max(a, b) == IF a >= b THEN a ELSE b

RECURSIVE Pow2(_)
Pow2(n) == IF n = 0 THEN 1 ELSE 2 * Pow2(n - 1)

\* a ^ b on non-negative ints
RECURSIVE XOR(_, _)
XOR(a, b) ==
    IF a = 0 THEN b
    ELSE IF b = 0 THEN a
    ELSE (((a % 2) + (b % 2)) % 2) + 2 * XOR(a \div 2, b \div 2)

\* n.to_bytes(2, "big") of an n in 0..65535
ToBytes2(n) == <<n \div 256, n % 256>>

\* n.to_bytes(2, "big", signed=True) of an n in -32768..32767
ToBytes2Signed(n) == ToBytes2(IF n < 0 THEN n + 65536 ELSE n)

\* int.from_bytes(b, "big")
RECURSIVE FromBytes(_)
FromBytes(b) ==
    IF b = <<>> THEN 0
    ELSE 256 * FromBytes(SubSeq(b, 1, Len(b) - 1)) + b[Len(b)]

\* int.from_bytes(b, "big", signed=True)
FromBytesSigned(b) ==
    LET u == FromBytes(b)
    IN  IF Len(b) > 0 /\ u >= Pow2(8 * Len(b) - 1)
        THEN u - Pow2(8 * Len(b)) ELSE u

\* b[-n:] and b[:-n] of Python slicing, for n >= 1
LastN(b, n) == SubSeq(b, Max(1, Len(b) - n + 1), Len(b))
DropLastN(b, n) == SubSeq(b, 1, Len(b) - n)

----------------------------------------------------------------------------
(* CRC16, eurotherm2404.py:266-276                                         *)

CRCInit == 65535
CRCPoly == 40961

\* one pass of "for j in range(8)": lsb, shift, conditional xor
CRC16Bit(CRC) ==
    LET lsb == CRC % 2
        shifted == CRC \div 2
    IN  IF lsb = 1 THEN XOR(shifted, CRCPoly) ELSE shifted

RECURSIVE CRC16Bits(_, _)
CRC16Bits(CRC, j) == IF j = 0 THEN CRC ELSE CRC16Bits(CRC16Bit(CRC), j - 1)

\* "for octet in data"; the accumulator (never negative) is evaluated at
\* every octet, as the loop does, rather than once at the end
RECURSIVE CRC16Loop(_, _)
CRC16Loop(CRC, data) ==
    IF CRC >= 0 /\ data = <<>> THEN CRC
    ELSE CRC16Loop(CRC16Bits(XOR(CRC, Head(data)), 8), Tail(data))

\* the mutant of CRC16: the two bytes returned high byte first
CRC16HighFirst(data) ==
    LET CRC == CRC16Loop(CRCInit, data) IN <<CRC \div 256, CRC % 256>>

CRC16(data) ==
    LET CRC == CRC16Loop(CRCInit, data) IN <<CRC % 256, CRC \div 256>>

----------------------------------------------------------------------------
(* Python text: str(int), str.split(","), int(text), int(text, 16)         *)

Digits == <<"0", "1", "2", "3", "4", "5", "6", "7", "8", "9">>
HexDigits == Digits \o <<"a", "b", "c", "d", "e", "f">>

\* str(n) and "%i" % n
RECURSIVE StrNat(_)
StrNat(n) ==
    IF n < 10 THEN <<Digits[n + 1]>>
    ELSE StrNat(n \div 10) \o <<Digits[(n % 10) + 1]>>

Str(n) == IF n < 0 THEN <<"-">> \o StrNat(0 - n) ELSE StrNat(n)

\* hex(n) of an n >= 0: "0x..." as a caller may write a register address
RECURSIVE HexNat(_)
HexNat(n) ==
    IF n < 16 THEN <<HexDigits[n + 1]>>
    ELSE HexNat(n \div 16) \o <<HexDigits[(n % 16) + 1]>>

Hex(n) == <<"0", "x">> \o HexNat(n)

\* text.split(sep): the list of the pieces between separators
RECURSIVE SplitFrom(_, _, _)
SplitFrom(text, sep, piece) ==
    IF text = <<>> THEN <<piece>>
    ELSE IF Head(text) = sep
         THEN <<piece>> \o SplitFrom(Tail(text), sep, <<>>)
         ELSE SplitFrom(Tail(text), sep, Append(piece, Head(text)))

Split(text, sep) == SplitFrom(text, sep, <<>>)

\* sep.join(pieces)
RECURSIVE Join(_, _)
Join(pieces, sep) ==
    IF pieces = <<>> THEN <<>>
    ELSE IF Len(pieces) = 1 THEN pieces[1]
    ELSE pieces[1] \o <<sep>> \o Join(Tail(pieces), sep)

\* "c in text"
Contains(text, c) == \E i \in 1..Len(text) : text[i] = c

DigitValue(c, digits) == (CHOOSE i \in 1..Len(digits) : digits[i] = c) - 1

RECURSIVE DigitsValue(_, _)
DigitsValue(text, digits) ==
    IF text = <<>> THEN 0
    ELSE Len(digits) * DigitsValue(SubSeq(text, 1, Len(text) - 1), digits)
         + DigitValue(text[Len(text)], digits)

AllIn(text, digits) ==
    \A i \in 1..Len(text) : \E j \in 1..Len(digits) : digits[j] = text[i]

\* an optional sign, then at least one digit; anything else is a ValueError
ParseSigned(text, digits) ==
    LET neg == text # <<>> /\ Head(text) = "-"
        signed == text # <<>> /\ Head(text) \in {"-", "+"}
        body == IF signed THEN Tail(text) ELSE text
    IN  IF body = <<>> \/ ~AllIn(body, digits)
        THEN [ok |-> FALSE, val |-> 0]
        ELSE [ok |-> TRUE,
              val |-> IF neg THEN 0 - DigitsValue(body, digits)
                      ELSE DigitsValue(body, digits)]

\* int(text)
Int10(text) == ParseSigned(text, Digits)

\* int(text, 16): the 0x prefix is optional and follows the sign
Int16(text) ==
    LET signed == text # <<>> /\ Head(text) \in {"-", "+"}
        sign == IF signed THEN <<Head(text)>> ELSE <<>>
        body == IF signed THEN Tail(text) ELSE text
        bare == IF Len(body) >= 2 /\ body[1] = "0" /\ body[2] = "x"
                THEN SubSeq(body, 3, Len(body)) ELSE body
    IN  IF bare # <<>> /\ Head(bare) \in {"-", "+"}
        THEN [ok |-> FALSE, val |-> 0]
        ELSE ParseSigned(sign \o bare, HexDigits)

----------------------------------------------------------------------------
(* class Functions(IntEnum), eurotherm2404.py:279-283                      *)

FunctionR == 3
FunctionWRITESINGLE == 6
FunctionECHO == 8
FunctionW == 16

NameR == <<"R">>
NameW == <<"W">>
NameECHO == <<"E", "C", "H", "O">>
NameWRITESINGLE == <<"W", "R", "I", "T", "E", "S", "I", "N", "G", "L", "E">>

FunctionNames == {NameR, NameW, NameECHO, NameWRITESINGLE}

\* Functions[name]; a name outside FunctionNames is a KeyError
Functions(name) ==
    CASE name = NameR -> FunctionR
      [] name = NameWRITESINGLE -> FunctionWRITESINGLE
      [] name = NameECHO -> FunctionECHO
      [] name = NameW -> FunctionW

\* Eurotherm2404.byteMode
byteMode == 2

----------------------------------------------------------------------------
(* Eurotherm2404.write: the frame built from a command string,             *)
(* eurotherm2404.py:176-195.  The result is the frame handed to            *)
(* write_bytes, or the exception raised before anything is handed over.    *)

Raised(exc) == [ok |-> FALSE, exc |-> exc, frame |-> <<>>]
Built(data) == [ok |-> TRUE, exc |-> "", frame |-> data]

\* "for element in values: data.extend(int(element).to_bytes(byteMode, 'big',
\* signed=True))": the bytes, or the first conversion that raises
RECURSIVE WriteValues(_)
WriteValues(values) ==
    IF values = <<>> THEN Built(<<>>)
    ELSE LET element == Int10(Head(values))
         IN  IF ~element.ok THEN Raised("ValueError")
             ELSE IF element.val < 0 - Pow2(8 * byteMode - 1)
                     \/ element.val >= Pow2(8 * byteMode - 1)
                  THEN Raised("OverflowError")
             ELSE LET rest == WriteValues(Tail(values))
                  IN  IF ~rest.ok THEN rest
                      ELSE Built(ToBytes2Signed(element.val) \o rest.frame)

\* n.to_bytes(2, "big") with its OverflowError
Unsigned2(n) ==
    IF n < 0 \/ n > 65535 THEN Raised("OverflowError") ELSE Built(ToBytes2(n))

\* "data += CRC16(data); self.write_bytes(bytes(data))": bytes() raises a
\* ValueError on an item outside range(256)
WriteBytesOf(data) ==
    IF \E i \in 1..Len(data) : data[i] < 0 \/ data[i] > 255
    THEN Raised("ValueError")
    ELSE Built(data \o CRC16(data))

\* the mutant of WritePayloadW: the byte count left equal to the element count
WritePayloadWCountAsBytes(values) ==
    LET elements == (Len(values) * byteMode) \div 2
        count == Unsigned2(elements)
        body == WriteValues(values)
    IN  IF ~count.ok THEN count
        ELSE IF ~body.ok THEN body
        ELSE Built(count.frame \o <<elements>> \o body.frame)

\* function == Functions.W, lines 181-186
WritePayloadW(values) ==
    LET elements == (Len(values) * byteMode) \div 2
        count == Unsigned2(elements)
        body == WriteValues(values)
    IN  IF ~count.ok THEN count
        ELSE IF ~body.ok THEN body
        ELSE Built(count.frame \o <<elements * 2>> \o body.frame)

\* the mutant of WritePayloadR: the count sent low byte first
WritePayloadRLowFirst(values) ==
    LET n == IF values = <<>> THEN [ok |-> TRUE, val |-> byteMode \div 2]
             ELSE Int10(values[1])
        count == IF n.ok THEN Unsigned2((n.val * byteMode) \div 2)
                 ELSE Raised("ValueError")
    IN  IF ~count.ok THEN count
        ELSE Built(<<count.frame[2], count.frame[1]>>)

\* function == Functions.R, lines 187-189
WritePayloadR(values) ==
    IF values = <<>> THEN Unsigned2(byteMode \div 2)
    ELSE LET n == Int10(values[1])
         IN  IF ~n.ok THEN Raised("ValueError")
             ELSE Unsigned2((n.val * byteMode) \div 2)

\* function == Functions.ECHO, lines 190-193 (after data[-2:] = [0, 0])
WritePayloadECHO(values) ==
    IF values = <<>> THEN Built(<<>>)
    ELSE LET n == Int10(values[1])
         IN  IF ~n.ok THEN Raised("ValueError") ELSE Unsigned2(n.val)

WriteFrame(addr, command) ==
    LET parts == Split(command, ",")
    IN  IF Len(parts) < 2 THEN Raised("ValueError")
        ELSE
        LET function == parts[1]
            values == SubSeq(parts, 3, Len(parts))
            register == IF Contains(parts[2], "x")
                        THEN Int16(parts[2]) ELSE Int10(parts[2])
        IN  IF function \notin FunctionNames THEN Raised("KeyError")
            ELSE IF ~register.ok THEN Raised("ValueError")
            ELSE IF ~Unsigned2(register.val).ok THEN Raised("OverflowError")
            ELSE
            LET code == Functions(function)
                head == <<addr, code>>
                payload ==
                    CASE code = FunctionW -> WritePayloadW(values)
                      [] code = FunctionR -> WritePayloadR(values)
                      [] code = FunctionECHO -> WritePayloadECHO(values)
                      [] OTHER -> Built(<<>>)
                start == IF code = FunctionECHO THEN <<0, 0>>
                         ELSE ToBytes2(register.val)
            IN  IF ~payload.ok THEN payload
                ELSE WriteBytesOf(head \o start \o payload.frame)

----------------------------------------------------------------------------
(* Eurotherm2404.read: what it does with the bytes waiting on the link,    *)
(* eurotherm2404.py:205-237.  consumed counts the bytes read_bytes took;   *)
(* stamped tells whether line 237 (last_read_timestamp) is reached.        *)

MsgCRC == "Response CRC does not match."
MsgUnknown == "Unknown read error. Received:"

\* the errors dict of lines 229-231
ErrorCodes == {2, 3, 4}
errors(code) ==
    CASE code = 2 -> "Wrong start address."
      [] code = 3 -> "Variable data error."
      [] code = 4 -> "Operation error."

Returned(value, n) ==
    [outcome |-> "return", hasValue |-> TRUE, value |-> value, exc |-> "",
     msg |-> "", raw |-> <<>>, consumed |-> n, stamped |-> FALSE]

ReturnedNone(n) ==
    [outcome |-> "return", hasValue |-> FALSE, value |-> <<>>, exc |-> "",
     msg |-> "", raw |-> <<>>, consumed |-> n, stamped |-> TRUE]

Raises(exc, msg, raw, n) ==
    [outcome |-> "raise", hasValue |-> FALSE, value |-> <<>>, exc |-> exc,
     msg |-> msg, raw |-> raw, consumed |-> n, stamped |-> FALSE]

\* read_bytes(n) with fewer than n bytes arriving: the adapter's timeout
TimedOut(buf) == Raises("TimeoutError", "", <<>>, Len(buf))

\* the mutant of ReadBranchR: the data taken as an unsigned integer
ReadBranchRUnsigned(buf) ==
    IF Len(buf) < 3 THEN TimedOut(buf)
    ELSE
    LET got == SubSeq(buf, 1, 2)
        length == SubSeq(buf, 3, 3)
        n == 3 + length[1] + 2
    IN  IF Len(buf) < n THEN TimedOut(buf)
        ELSE
        LET read == SubSeq(buf, 4, n)
        IN  IF LastN(read, 2) # CRC16(got \o length \o DropLastN(read, 2))
            THEN Raises("ConnectionError", MsgCRC, <<>>, n)
            ELSE Returned(Str(FromBytes(DropLastN(read, 2))), n)

\* got[1] == Functions.R, lines 207-214
ReadBranchR(buf) ==
    IF Len(buf) < 3 THEN TimedOut(buf)
    ELSE
    LET got == SubSeq(buf, 1, 2)
        length == SubSeq(buf, 3, 3)
        n == 3 + length[1] + 2
    IN  IF Len(buf) < n THEN TimedOut(buf)
        ELSE
        LET read == SubSeq(buf, 4, n)
        IN  IF LastN(read, 2) # CRC16(got \o length \o DropLastN(read, 2))
            THEN Raises("ConnectionError", MsgCRC, <<>>, n)
            ELSE Returned(Str(FromBytesSigned(DropLastN(read, 2))), n)

\* the mutant of ReadBranchW: the acknowledgment accepted unverified
ReadBranchWUnverified(buf) ==
    IF Len(buf) < 8 THEN TimedOut(buf) ELSE ReturnedNone(8)

\* another mutant of ReadBranchW: 2 + 2 + 2 taken as the whole frame
ReadBranchWSixBytes(buf) ==
    IF Len(buf) < 6 THEN TimedOut(buf)
    ELSE
    LET got == SubSeq(buf, 1, 6)
    IN  IF LastN(got, 2) # CRC16(DropLastN(got, 2))
        THEN Raises("ConnectionError", MsgCRC, <<>>, 6)
        ELSE ReturnedNone(6)

\* got[1] == Functions.W, lines 215-219, falling through to line 237
ReadBranchW(buf) ==
    IF Len(buf) < 8 THEN TimedOut(buf)
    ELSE
    LET got == SubSeq(buf, 1, 8)
    IN  IF LastN(got, 2) # CRC16(DropLastN(got, 2))
        THEN Raises("ConnectionError", MsgCRC, <<>>, 8)
        ELSE ReturnedNone(8)

\* got[1] == Functions.ECHO, lines 220-225
ReadBranchECHO(buf) ==
    IF Len(buf) < 8 THEN TimedOut(buf)
    ELSE
    LET got == SubSeq(buf, 1, 8)
    IN  IF LastN(got, 2) # CRC16(DropLastN(got, 2))
        THEN Raises("ConnectionError", MsgCRC, <<>>, 8)
        ELSE Returned(Str(FromBytes(SubSeq(got, 5, 6))), 8)

\* the mutant of ReadBranchError: every exception reported as a device error
ReadBranchErrorAllValue(buf) ==
    IF Len(buf) < 5 THEN TimedOut(buf)
    ELSE Raises("ValueError", "Operation error.", <<>>, 5)

\* else: "an error occurred", lines 226-235
ReadBranchError(buf) ==
    IF Len(buf) < 5 THEN TimedOut(buf)
    ELSE
    LET got == SubSeq(buf, 1, 2)
        end == SubSeq(buf, 3, 5)
    IN  IF end[1] \in ErrorCodes
        THEN Raises("ValueError", errors(end[1]), <<>>, 5)
        ELSE Raises("ConnectionError", MsgUnknown, got \o end, 5)

ReadDecode(buf) ==
    IF Len(buf) < 2 THEN TimedOut(buf)
    ELSE CASE buf[2] = FunctionR -> ReadBranchR(buf)
           [] buf[2] = FunctionW -> ReadBranchW(buf)
           [] buf[2] = FunctionECHO -> ReadBranchECHO(buf)
           [] OTHER -> ReadBranchError(buf)

----------------------------------------------------------------------------
(* The controller at the other end of the link.  Frame shapes are the ones *)
(* read() decodes and the tests exchange.                                  *)

Framed(body) == body \o CRC16(body)

\* [address, 0x03, byte count, data...] + CRC
ReadResponse(a, data) == Framed(<<a, FunctionR, Len(data)>> \o data)

\* [address, 0x10, start address, number of elements] + CRC
WriteAck(f) == Framed(SubSeq(f, 1, 6))

\* the request sent back
EchoResponse(f) == f

\* [address, function + 0x80, error code] + CRC
ExceptionResponse(f, code) == Framed(<<f[1], f[2] + 128, code>>)

\* [address, 0x06, register, value] + CRC, the answer to a write-single
SingleAck(f, value) == Framed(SubSeq(f, 1, 4) \o ToBytes2(value))

\* one bit of byte i inverted
FlipBit(frame, i, b) == [frame EXCEPT ![i] = XOR(@, Pow2(b))]

\* bounds of the device's choices
MaxData == 2
ExceptionCodes == {1, 2, 3, 4, 5}
ReadBytes == {0, 1, 128, 255}
TamperBits == {0, 7}
SingleValues == {1}

ReadDatas == UNION {[1..n -> ReadBytes] : n \in 0..MaxData}

\* the well-formed answers to request f, each with its shape
Answers(f) ==
    (IF f[2] = FunctionR
     THEN {[shape |-> "read", frame |-> ReadResponse(f[1], d)] : d \in ReadDatas}
     ELSE {})
    \cup (IF f[2] = FunctionW
          THEN {[shape |-> "ack", frame |-> WriteAck(f)]} ELSE {})
    \cup (IF f[2] = FunctionECHO
          THEN {[shape |-> "echo", frame |-> EchoResponse(f)]} ELSE {})
    \cup (IF f[2] = FunctionWRITESINGLE
          THEN {[shape |-> "single", frame |-> SingleAck(f, v)] : v \in SingleValues}
          ELSE {})
    \cup {[shape |-> "exception", frame |-> ExceptionResponse(f, c)] :
            c \in ExceptionCodes}

\* the bytes after the function code and before the CRC, a read response's
\* length byte left out
PayloadIndexes(r) ==
    IF r.shape = "read" THEN 4..(Len(r.frame) - 2) ELSE 3..(Len(r.frame) - 2)

CRCIndexes(r) == (Len(r.frame) - 1)..Len(r.frame)

\* what arrives: the answer as sent, or with one bit inverted on the way
Arrivals(r) ==
    {[shape |-> r.shape, frame |-> r.frame, damage |-> "none",
      bytes |-> r.frame]}
    \cup {[shape |-> r.shape, frame |-> r.frame, damage |-> "crc",
           bytes |-> FlipBit(r.frame, i, b)] :
            i \in CRCIndexes(r), b \in TamperBits}
    \cup {[shape |-> r.shape, frame |-> r.frame, damage |-> "payload",
           bytes |-> FlipBit(r.frame, i, b)] :
            i \in PayloadIndexes(r), b \in 0..7}

NoneSent == [shape |-> "none", frame |-> <<>>, damage |-> "none", bytes |-> <<>>]

----------------------------------------------------------------------------
(* The driver's operations as steps of one instance                        *)

\* no read() has completed yet
NoRead == [ended |-> 0, decoded |-> FALSE]

Idle ==
    [at |-> "idle", kind |-> "", since |-> 0, outcome |-> "", data |-> 0,
     raised |-> ""]

NoCall ==
    [op |-> "none", command |-> <<>>, wrote |-> Raised(""),
     got |-> Raises("", "", <<>>, 0), buf |-> <<>>, unanswered |-> 0,
     entered |-> 0, since |-> 0, began |-> 0, ended |-> 0, after |-> NoRead]

\* write() that takes last_write_timestamp before write_bytes, not after
writeStampedBefore(command, d) ==
    LET actual_write_delay == now - last_write_timestamp
        began == now + Max(0, write_delay - actual_write_delay)
        out == WriteFrame(address, command)
        ended == IF out.ok THEN began + d ELSE began
    IN  /\ now' = ended
        /\ req' = IF out.ok THEN Append(req, out.frame) ELSE req
        /\ last_write_timestamp' =
               IF out.ok THEN began ELSE last_write_timestamp
        /\ call' = [NoCall EXCEPT !.op = "write", !.command = command,
                                  !.wrote = out, !.buf = rx,
                                  !.unanswered = Len(req),
                                  !.entered = now,
                                  !.since = last_write_timestamp,
                                  !.began = began, !.ended = ended]
        /\ UNCHANGED <<address, write_delay, read_delay, query_delay,
                       last_read_timestamp, rx, sent, prev, crcIn, crcOut, tek>>

\* Eurotherm2404.write(command); d is the time write_bytes takes
write(command, d) ==
    LET actual_write_delay == now - last_write_timestamp
        began == now + Max(0, write_delay - actual_write_delay)
        out == WriteFrame(address, command)
        ended == IF out.ok THEN began + d ELSE began
    IN  /\ now' = ended
        /\ req' = IF out.ok THEN Append(req, out.frame) ELSE req
        /\ last_write_timestamp' =
               IF out.ok THEN ended ELSE last_write_timestamp
        /\ call' = [NoCall EXCEPT !.op = "write", !.command = command,
                                  !.wrote = out, !.buf = rx,
                                  !.unanswered = Len(req),
                                  !.entered = now,
                                  !.since = last_write_timestamp,
                                  !.began = began, !.ended = ended]
        /\ UNCHANGED <<address, write_delay, read_delay, query_delay,
                       last_read_timestamp, rx, sent, prev, crcIn, crcOut, tek>>

\* Eurotherm2404.read(); d is the time the read_bytes calls take
read(d) ==
    LET actual_read_delay == now - last_read_timestamp
        began == now + Max(0, read_delay - actual_read_delay)
        out == ReadDecode(rx)
        ended == began + d
    IN  /\ now' = ended
        /\ rx' = SubSeq(rx, out.consumed + 1, Len(rx))
        /\ last_read_timestamp' =
               IF out.stamped THEN ended ELSE last_read_timestamp
        /\ call' = [NoCall EXCEPT !.op = "read", !.got = out, !.buf = rx,
                                  !.unanswered = Len(req),
                                  !.entered = now,
                                  !.since = last_read_timestamp,
                                  !.began = began, !.ended = ended,
                                  !.after = prev]
        /\ prev' = [ended |-> ended, decoded |-> out.outcome = "return"]
        /\ UNCHANGED <<address, write_delay, read_delay, query_delay,
                       last_write_timestamp, req, sent, crcIn, crcOut, tek>>

\* every way an answer to request f may arrive
AnyArrival(f) == UNION {Arrivals(r) : r \in Answers(f)}

\* the controller answers the oldest unanswered request with one of arrivals
Respond(arrivals) ==
    /\ req # <<>>
    /\ \E a \in arrivals :
          /\ rx' = rx \o a.bytes
          /\ sent' = a
    /\ req' = Tail(req)
    /\ UNCHANGED <<address, write_delay, read_delay, query_delay,
                   last_write_timestamp, last_read_timestamp, now, call,
                   prev, arg, pc, crcIn, crcOut, tek>>

DeviceRespond == req # <<>> /\ Respond(AnyArrival(Head(req)))

\* Eurotherm2404.__init__, lines 104-110, on a link with nothing in flight
Constructed(a, wd, rd, qd, t) ==
    /\ address = a
    /\ write_delay = wd
    /\ read_delay = rd
    /\ query_delay = qd
    /\ last_write_timestamp = 0
    /\ last_read_timestamp = 0
    /\ now = t
    /\ req = <<>>
    /\ rx = <<>>
    /\ call = NoCall
    /\ sent = NoneSent
    /\ prev = NoRead
    /\ pc = Idle

----------------------------------------------------------------------------
(* A caller's command: function name, register, values                     *)

NoArg ==
    [fn |-> <<>>, reg |-> 0, hex |-> FALSE, vals |-> <<>>,
     prop |-> "", value |-> [type |-> "none", val |-> 0, text |-> ""]]

StrEach(vals) == [i \in 1..Len(vals) |-> Str(vals[i])]

\* "W,291,1", "R,0x123", "ECHO,0,7": the text the caller passes to write()
CommandText(c) ==
    Join(<<c.fn, IF c.hex THEN Hex(c.reg) ELSE Str(c.reg)>> \o StrEach(c.vals),
         ",")

Command(fn, reg, hex, vals) ==
    [NoArg EXCEPT !.fn = fn, !.reg = reg, !.hex = hex, !.vals = vals]

----------------------------------------------------------------------------
(* SpecEncode: write(command) on a fresh instance, for each command        *)

StartTime == 10
MaxValues == 2
Addresses == {1, 247}
EncodeRegisters == {0, 291, 65535}
EncodeValues == {0 - 32768, 0 - 1, 1, 32767}

ValueLists == UNION {[1..n -> EncodeValues] : n \in 0..MaxValues}

EncodeCommands ==
    {Command(NameW, r, FALSE, v) : r \in EncodeRegisters, v \in ValueLists}
    \cup {Command(NameW, 291, FALSE, <<v>>) : v \in {32768, 0 - 32769}}
    \cup {Command(NameR, r, h, v) :
            r \in EncodeRegisters, h \in BOOLEAN, v \in {<<>>, <<1>>, <<2>>}}
    \cup {Command(NameR, 291, h, <<n>>) :
            h \in BOOLEAN, n \in {0, 256, 65535, 65536}}
    \cup {Command(NameECHO, 0, FALSE, v) : v \in {<<>>, <<0>>, <<65535>>}}
    \cup {Command(NameWRITESINGLE, r, FALSE, <<>>) : r \in {291, 512}}
    \cup {Command(<<"X">>, 291, FALSE, <<1>>),
          Command(NameW, 65536, FALSE, <<1>>),
          Command(NameR, 0 - 1, FALSE, <<>>)}

InitCodec ==
    /\ \E a \in Addresses : Constructed(a, 0, 0, 0, StartTime)
    /\ arg = NoArg
    /\ crcIn = <<>>
    /\ crcOut = <<>>
    /\ NoTek

EncodeWrite ==
    /\ call.op = "none"
    /\ \E c \in EncodeCommands :
          /\ arg' = c
          /\ write(CommandText(c), 0)
    /\ UNCHANGED pc

SpecEncode == InitCodec /\ [][EncodeWrite]_vars

----------------------------------------------------------------------------
(* SpecCodec: one exchange on a fresh instance - a write(command), the     *)
(* controller's answer as it arrives, a read()                             *)

CodecCommands ==
    {Command(NameW, 291, FALSE, <<1>>),
     Command(NameW, 65535, FALSE, <<0 - 1, 32767>>),
     Command(NameW, 0, FALSE, <<>>),
     Command(NameR, 291, FALSE, <<>>),
     Command(NameR, 5, TRUE, <<2>>),
     Command(NameECHO, 0, FALSE, <<>>),
     Command(NameECHO, 0, FALSE, <<65535>>),
     Command(NameWRITESINGLE, 291, FALSE, <<>>),
     Command(NameWRITESINGLE, 512, FALSE, <<>>)}

CodecWrite ==
    /\ call.op = "none"
    /\ \E c \in CodecCommands :
          /\ arg' = c
          /\ write(CommandText(c), 0)
    /\ UNCHANGED pc

CodecRead ==
    /\ call.op = "write"
    /\ rx # <<>>
    /\ read(0)
    /\ UNCHANGED <<arg, pc>>

NextCodec == CodecWrite \/ DeviceRespond \/ CodecRead

SpecCodec == InitCodec /\ [][NextCodec]_vars

----------------------------------------------------------------------------
(* The properties of Eurotherm2404, eurotherm2404.py:112-161, and the      *)
(* accessors Instrument.control / setting / measurement give them          *)

PROCESS_TEMP_ADDR == 1
SELECTED_SETPOINT_VALUE_ADDR == 2
SELECT_SETPOINT_ADRR == 15
CURRENTLY_SELECTED_SETPOINT_ADRR == 291
SETPOINT1_VALUE_ADDR == 24
SETPOINT2_VALUE_ADDR == 25
OUTPUTPOWER_ADDR == 3
MODE_ADDR == 273
RESOLUTION_ADDR == 12550
MANUAL_MODE == 1
AUTO_MODE == 0
FULL_RESOLUTION == 0
INTEGER_RESOLUTION == 1
NUMBER_OF_SETPOINTS_AVAILABLE == 2

Readable ==
    {"selected_setpoint", "setpoint1_value", "setpoint2_value",
     "process_temperature", "output_power"}

Settable ==
    {"selected_setpoint", "selected_setpoint_value", "automode_enabled",
     "resolution"}

\* the get_command of a property
GetCommand(p) ==
    <<"R", ",">> \o
    Str(CASE p = "selected_setpoint" -> CURRENTLY_SELECTED_SETPOINT_ADRR
          [] p = "setpoint1_value" -> SETPOINT1_VALUE_ADDR
          [] p = "setpoint2_value" -> SETPOINT2_VALUE_ADDR
          [] p = "process_temperature" -> PROCESS_TEMP_ADDR
          [] p = "output_power" -> OUTPUTPOWER_ADDR)

\* the set_command of a property, up to its "%i" if it has one
SetCommandPrefix(p) ==
    CASE p = "selected_setpoint" ->
            <<"W", ",">> \o Str(SELECT_SETPOINT_ADRR) \o <<",">>
      [] p = "selected_setpoint_value" ->
            <<"W", ",">> \o Str(SELECTED_SETPOINT_VALUE_ADDR) \o <<",">>
      [] p = "automode_enabled" -> <<"W", ",">> \o Str(MODE_ADDR) \o <<",">>
      [] p = "resolution" -> <<"W", ",">> \o Str(RESOLUTION_ADDR)

SetCommandHasFormat(p) == p # "resolution"

\* validator=strict_discrete_set
StrictDiscrete(p) ==
    p \in {"selected_setpoint", "automode_enabled", "resolution"}

\* a Python value the caller passes: True / False, an int, a str
PyBool(b) == [type |-> "bool", val |-> IF b THEN 1 ELSE 0, text |-> ""]
PyInt(n) == [type |-> "int", val |-> n, text |-> ""]
PyStr(t) == [type |-> "str", val |-> 0, text |-> t]

\* Python's ==, by which "in" and dict lookup compare: True == 1, False == 0
PyEq(a, b) ==
    IF a.type = "str" \/ b.type = "str"
    THEN a.type = b.type /\ a.text = b.text
    ELSE a.val = b.val

\* values= with True sending MANUAL_MODE and False sending AUTO_MODE
ValuesModesSwapped(p) ==
    CASE p = "selected_setpoint" ->
            {[key |-> PyInt(n), to |-> PyInt(n)] :
                n \in 0..(NUMBER_OF_SETPOINTS_AVAILABLE - 1)}
      [] p = "automode_enabled" ->
            {[key |-> PyBool(TRUE), to |-> PyInt(MANUAL_MODE)],
             [key |-> PyBool(FALSE), to |-> PyInt(AUTO_MODE)]}
      [] p = "resolution" ->
            {[key |-> PyStr("full"), to |-> PyInt(FULL_RESOLUTION)],
             [key |-> PyStr("integer"), to |-> PyInt(INTEGER_RESOLUTION)]}

\* values=..., as the entries key -> what is sent; a list sends its member
\* (no map_values), a dict with map_values=True sends the mapped value
Values(p) ==
    CASE p = "selected_setpoint" ->
            {[key |-> PyInt(n), to |-> PyInt(n)] :
                n \in 0..(NUMBER_OF_SETPOINTS_AVAILABLE - 1)}
      [] p = "automode_enabled" ->
            {[key |-> PyBool(TRUE), to |-> PyInt(AUTO_MODE)],
             [key |-> PyBool(FALSE), to |-> PyInt(MANUAL_MODE)]}
      [] p = "resolution" ->
            {[key |-> PyStr("full"), to |-> PyInt(FULL_RESOLUTION)],
             [key |-> PyStr("integer"), to |-> PyInt(INTEGER_RESOLUTION)]}

\* map_values=True
MapValues(p) == p \in {"automode_enabled", "resolution"}

\* no property passes check_set_errors=True; check_set_errors() is "called
\* if check_set_errors=True is set for that property" (line 251)
ChecksSetErrors(p) == FALSE

\* the setter an accessor makes: validator(value, values), then the mapping,
\* then set_command % value; the command a property set writes, or the
\* exception raised before write() is called
SetCommand(p, v) ==
    LET known == {e \in Values(p) : PyEq(e.key, v)}
        value == IF StrictDiscrete(p) /\ MapValues(p)
                 THEN (CHOOSE e \in known : TRUE).to
                 ELSE v
    IN  IF StrictDiscrete(p) /\ known = {}
        THEN [ok |-> FALSE, exc |-> "ValueError", command |-> <<>>]
        ELSE IF ~SetCommandHasFormat(p) \/ value.type = "str"
        THEN [ok |-> FALSE, exc |-> "TypeError", command |-> <<>>]
        ELSE [ok |-> TRUE, exc |-> "",
              command |-> SetCommandPrefix(p) \o Str(value.val)]

----------------------------------------------------------------------------
(* Spec: one instance used by one caller - property sets, property gets    *)
(* and pings in any order, the controller answering each request           *)

Delay == 2
Horizon == 4
MaxPending == 1
MaxUnread == 8
MaxTransmit == 1
Deadline == StartTime + Horizon

\* what the controller answers in Spec: well-formed frames
CleanArrival(f) ==
    {[shape |-> r.shape, frame |-> r.frame, damage |-> "none",
      bytes |-> r.frame] :
        r \in (IF f[2] = FunctionR
               THEN {[shape |-> "read", frame |-> ReadResponse(f[1], <<0, 1>>)]}
               ELSE IF f[2] = FunctionW
               THEN {[shape |-> "ack", frame |-> WriteAck(f)]}
               ELSE {[shape |-> "echo", frame |-> EchoResponse(f)]})}

DeviceAnswer == req # <<>> /\ Respond(CleanArrival(Head(req)))

Init ==
    /\ \E qd \in {0, Delay} : Constructed(1, Delay, Delay, qd, StartTime)
    /\ arg = NoArg
    /\ crcIn = <<>>
    /\ crcOut = <<>>
    /\ NoTek

\* the caller may start a request: it is in no call, and the model keeps
\* the backlog on the link within its bounds
MayRequest ==
    /\ pc.at = "idle"
    /\ Len(req) < MaxPending
    /\ Len(rx) <= MaxUnread
    /\ now + Max(0, write_delay - (now - last_write_timestamp)) + MaxTransmit
           <= Deadline

\* instance.p = v: validate, map, format, write(); then check_set_errors()
\* where the property asks for it; a value or a template the setter rejects
\* raises before write() is called
Setter(p, v) ==
    /\ MayRequest
    /\ IF SetCommand(p, v).ok
       THEN /\ \E d \in 0..MaxTransmit : write(SetCommand(p, v).command, d)
            /\ pc' = IF ChecksSetErrors(p)
                     THEN [Idle EXCEPT !.at = "check", !.kind = "set"]
                     ELSE [Idle EXCEPT !.kind = "set"]
       ELSE /\ pc' = [Idle EXCEPT !.kind = "set",
                                  !.outcome = SetCommand(p, v).exc]
            /\ call' = NoCall
            /\ UNCHANGED <<address, write_delay, read_delay, query_delay,
                           last_write_timestamp, last_read_timestamp, now,
                           req, rx, sent, prev, crcIn, crcOut, tek>>

PropertySet(p, v) == Setter(p, v) /\ UNCHANGED arg

\* check_set_errors(), lines 248-259: read() the answer, re-raise what it
\* raises; called by a property set that asks for it, or by the caller
CheckSetErrors ==
    /\ pc.at \in {"idle", "check"}
    /\ rx # <<>>
    /\ now + Max(0, read_delay - (now - last_read_timestamp)) <= Deadline
    /\ read(0)
    /\ pc' = [Idle EXCEPT !.kind = "check"]
    /\ UNCHANGED arg

\* ask(command), lines 239-246, first half: write(command); data is what
\* the caller will compare the answer with
AskWrite(kind, command, data) ==
    /\ MayRequest
    /\ \E d \in 0..MaxTransmit : write(command, d)
    /\ pc' = [Idle EXCEPT !.at = IF WriteFrame(address, command).ok
                                 THEN "ask" ELSE "idle",
                          !.kind = kind,
                          !.since = now',
                          !.data = data,
                          !.raised = WriteFrame(address, command).exc]
    /\ UNCHANGED arg

\* instance.p: ask(get_command)
PropertyGet(p) == AskWrite("get", GetCommand(p), 0)

\* ping(test_data), line 263: ask("ECHO,0,test_data")
Ping(test_data) ==
    AskWrite("ping", NameECHO \o <<",", "0", ",">> \o Str(test_data),
             test_data)

\* the mutant of AskOutcome: ping without its comparison
AskOutcomeUncompared(kind, data, got) ==
    IF got.outcome # "return" THEN got.exc
    ELSE IF kind # "ping" THEN ""
    ELSE IF ~got.hasValue \/ ~Int10(got.value).ok THEN "TypeError"
    ELSE ""

\* the exception the caller of ask() ends with, "" if none: what read()
\* raised, or for ping, line 263, int(None) and the failed assert
AskOutcome(kind, data, got) ==
    IF got.outcome # "return" THEN got.exc
    ELSE IF kind # "ping" THEN ""
    ELSE IF ~got.hasValue THEN "TypeError"
    ELSE IF ~Int10(got.value).ok THEN "ValueError"
    ELSE IF Int10(got.value).val # data THEN "AssertionError"
    ELSE ""

\* ask, between write and read: the wait of query_delay
AskWait ==
    /\ pc.at = "ask"
    /\ now < pc.since + query_delay
    /\ pc.since + query_delay <= Deadline
    /\ now' = pc.since + query_delay
    /\ UNCHANGED <<address, write_delay, read_delay, query_delay,
                   last_write_timestamp, last_read_timestamp, req, rx, call,
                   sent, prev, arg, pc, crcIn, crcOut, tek>>

\* ask, second half: read(), whose result the accessor or ping's assert
\* then takes
AskRead ==
    /\ pc.at = "ask"
    /\ now >= pc.since + query_delay
    /\ rx # <<>>
    /\ now + Max(0, read_delay - (now - last_read_timestamp)) <= Deadline
    /\ read(0)
    /\ pc' = [Idle EXCEPT !.kind = pc.kind,
                          !.outcome = ReadDecode(rx).outcome,
                          !.data = pc.data,
                          !.raised = AskOutcome(pc.kind, pc.data,
                                                ReadDecode(rx))]
    /\ UNCHANGED arg

\* time passes
Tick ==
    /\ now < Deadline
    /\ now' = now + 1
    /\ UNCHANGED <<address, write_delay, read_delay, query_delay,
                   last_write_timestamp, last_read_timestamp, req, rx, call,
                   sent, prev, arg, pc, crcIn, crcOut, tek>>

SetAutomode == \E v \in BOOLEAN : PropertySet("automode_enabled", PyBool(v))

GetTemperature == PropertyGet("process_temperature")

PingSeven == Ping(7)

\* instance.write("X,1"): a command write() rejects, after its sleep
WriteUnknown ==
    /\ MayRequest
    /\ write(<<"X", ",", "1">>, 0)
    /\ pc' = [Idle EXCEPT !.kind = "write"]
    /\ UNCHANGED arg

Next ==
    \/ SetAutomode
    \/ GetTemperature
    \/ PingSeven
    \/ WriteUnknown
    \/ AskWait
    \/ AskRead
    \/ CheckSetErrors
    \/ DeviceAnswer
    \/ Tick

Spec == Init /\ [][Next]_vars

----------------------------------------------------------------------------
(* SpecCRC: CRC16(data) for each byte string data                          *)

MaxLen == 3
CRCBytes == {0, 1, 128, 255}
CheckString == <<49, 50, 51, 52, 53, 54, 55, 56, 57>>

CRCInputs == {CheckString} \cup UNION {[1..n -> CRCBytes] : n \in 0..MaxLen}

InitCRC ==
    /\ Constructed(1, 0, 0, 0, StartTime)
    /\ arg = NoArg
    /\ crcIn \in CRCInputs
    /\ crcOut = <<>>
    /\ NoTek

CRCCall ==
    /\ crcOut = <<>>
    /\ crcOut' = CRC16(crcIn)
    /\ UNCHANGED <<address, write_delay, read_delay, query_delay,
                   last_write_timestamp, last_read_timestamp, now, req, rx,
                   call, sent, prev, arg, pc, crcIn,
                   tek>>

SpecCRC == InitCRC /\ [][CRCCall]_vars

----------------------------------------------------------------------------
(* The Modbus CRC16 by its catalogue parameters: width 16, polynomial      *)
(* 0x8005, initial value 0xFFFF, input and output reflected, no final xor; *)
(* computed most significant bit first on the reflected bytes.             *)

RECURSIVE Reflect(_, _)
Reflect(v, bits) ==
    IF bits = 0 THEN 0
    ELSE (v % 2) * Pow2(bits - 1) + Reflect(v \div 2, bits - 1)

ModbusShift(crc) ==
    IF crc >= 32768 THEN XOR((crc * 2) % 65536, 32773) ELSE crc * 2

RECURSIVE ModbusShifts(_, _)
ModbusShifts(crc, n) ==
    IF crc >= 0 /\ n = 0 THEN crc ELSE ModbusShifts(ModbusShift(crc), n - 1)

RECURSIVE ModbusRegister(_, _)
ModbusRegister(crc, data) ==
    IF crc >= 0 /\ data = <<>> THEN crc
    ELSE ModbusRegister(
             ModbusShifts(XOR(crc, Reflect(Head(data), 8) * 256), 8),
             Tail(data))

ModbusCRC16(data) == Reflect(ModbusRegister(65535, data), 16)

\* C2: CRC16(data) is the standard Modbus CRC16 of data, returned as the two
\* values [low byte, high byte], each in 0..255; the CRC of the catalogue's
\* check string "123456789" is 0x4B37.
C2_CRC16IsModbus ==
    crcOut # <<>> =>
        /\ Len(crcOut) = 2
        /\ crcOut[1] \in 0..255
        /\ crcOut[2] \in 0..255
        /\ crcOut = <<ModbusCRC16(crcIn) % 256, ModbusCRC16(crcIn) \div 256>>
        /\ (crcIn = CheckString => crcOut = <<55, 75>>)

C2_Witness == crcIn = CheckString /\ crcOut = <<55, 75>>

----------------------------------------------------------------------------
(* Claims on write(), checked under SpecEncode                             *)

\* v as a 2-byte two's complement big-endian integer
TwosComplement2(v) == <<(v % 65536) \div 256, (v % 65536) % 256>>

RECURSIVE EachTwosComplement2(_)
EachTwosComplement2(vals) ==
    IF vals = <<>> THEN <<>>
    ELSE TwosComplement2(Head(vals)) \o EachTwosComplement2(Tail(vals))

WriteMultipleBody(a, r, vals) ==
    <<a, 16, r \div 256, r % 256, Len(vals) \div 256, Len(vals) % 256,
      2 * Len(vals)>> \o EachTwosComplement2(vals)

WriteOfValues ==
    /\ call.op = "write"
    /\ arg.fn = NameW
    /\ arg.reg \in 0..65535
    /\ arg.vals # <<>>
    /\ \A i \in 1..Len(arg.vals) : arg.vals[i] \in (0 - 32768)..32767

\* C1: write("W,r,v1,...,vk") hands write_bytes exactly one frame: address,
\* 0x10, r big-endian, k as 2 bytes, 2k as 1 byte, each vi as a signed 2-byte
\* big-endian integer, then the CRC16 of those bytes, low byte first; for
\* address 1, r = 0x0123 and values [1] it is [1,16,1,35,0,1,2,0,1] + CRC16.
C1_WriteMultipleFrame ==
    WriteOfValues =>
        LET body == WriteMultipleBody(address, arg.reg, arg.vals)
        IN  /\ call.wrote.ok
            /\ call.wrote.frame = body \o CRC16(body)
            /\ req = <<body \o CRC16(body)>>
            /\ (address = 1 /\ arg.reg = 291 /\ arg.vals = <<1>>
                  => DropLastN(req[1], 2) = <<1, 16, 1, 35, 0, 1, 2, 0, 1>>)

C1_Witness ==
    /\ WriteOfValues
    /\ address = 1
    /\ arg.reg = 291
    /\ arg.vals = <<1>>
    /\ Len(req) = 1
    /\ DropLastN(req[1], 2) = <<1, 16, 1, 35, 0, 1, 2, 0, 1>>

----------------------------------------------------------------------------
(* Claims on read(), checked under SpecCodec                               *)

\* data as a big-endian two's complement integer, most significant byte first
RECURSIVE BigEndian(_)
BigEndian(data) ==
    IF data = <<>> THEN 0
    ELSE Head(data) * Pow2(8 * (Len(data) - 1)) + BigEndian(Tail(data))

SignedBigEndian(data) ==
    IF data # <<>> /\ data[1] >= 128
    THEN BigEndian(data) - Pow2(8 * Len(data)) ELSE BigEndian(data)

RaisedCRCMismatch ==
    /\ call.got.outcome = "raise"
    /\ call.got.exc = "ConnectionError"
    /\ call.got.msg = "Response CRC does not match."

ReadOfReadResponse ==
    /\ call.op = "read"
    /\ Len(call.buf) >= 3
    /\ call.buf[2] = 3
    /\ Len(call.buf) >= 3 + call.buf[3] + 2

\* C3: on a response whose function byte is READ, read() reads 1 length byte
\* and then length + 2 bytes; it returns the decimal string of the data bytes
\* as a big-endian signed integer if the last two bytes are the CRC16 of
\* header + length byte + data, and raises the CRC-mismatch error otherwise.
\* [1,3,2,0,1] + CRC gives "1"; with a tampered CRC byte read() raises.
C3_ReadResponse ==
    ReadOfReadResponse =>
        LET length == call.buf[3]
            data == SubSeq(call.buf, 4, 3 + length)
            crc == SubSeq(call.buf, 4 + length, 5 + length)
            scenario == <<1, 3, 2, 0, 1>> \o CRC16(<<1, 3, 2, 0, 1>>)
        IN  /\ call.got.consumed = 2 + 1 + length + 2
            /\ IF crc = CRC16(SubSeq(call.buf, 1, 3 + length))
               THEN /\ call.got.outcome = "return"
                    /\ call.got.hasValue
                    /\ call.got.value = Str(SignedBigEndian(data))
               ELSE RaisedCRCMismatch
            /\ (call.buf = scenario => call.got.value = <<"1">>)
            /\ (sent.frame = scenario /\ sent.damage = "crc"
                  => RaisedCRCMismatch)

C3_Witness ==
    /\ ReadOfReadResponse
    /\ call.buf = <<1, 3, 2, 0, 1>> \o CRC16(<<1, 3, 2, 0, 1>>)
    /\ call.got.outcome = "return"
    /\ call.got.value = <<"1">>

\* a read response, a write acknowledgment or an 8-byte echo response
DecodedShape ==
    \/ sent.shape = "read"
    \/ sent.shape = "ack"
    \/ sent.shape = "echo" /\ Len(sent.frame) = 8

\* C4: one bit inverted in the payload of a well-formed read response, write
\* acknowledgment or echo response makes read() raise the CRC-mismatch error.
C4_PayloadBitFlipDetected ==
    call.op = "read" /\ DecodedShape /\ sent.damage = "payload"
        => RaisedCRCMismatch

C4_Witness ==
    /\ call.op = "read"
    /\ sent.shape = "ack"
    /\ sent.damage = "payload"
    /\ call.buf = FlipBit(sent.frame, 6, 0)
    /\ RaisedCRCMismatch

\* C5: whatever the shape of the frame read() receives, exception responses
\* included, a trailing CRC that is not the CRC16 of the bytes before it makes
\* read() raise the CRC-mismatch ConnectionError - never a value, never a
\* device error.
C5_BadCRCAlwaysCRCMismatch ==
    /\ call.op = "read"
    /\ call.got.exc # "TimeoutError"
    /\ LastN(call.buf, 2) # CRC16(DropLastN(call.buf, 2))
    => RaisedCRCMismatch

ReadOfException ==
    /\ call.op = "read"
    /\ Len(call.buf) >= 5
    /\ call.buf[2] >= 128

\* C6: on a response whose function byte has its high bit set, read() reads
\* exactly 3 more bytes and raises: a device error of its own for each of the
\* codes 0x02, 0x03 and 0x04, and for any other code a ConnectionError that
\* carries the header and the 3 trailing bytes; it never returns a value.
C6_ExceptionResponse ==
    ReadOfException =>
        /\ call.got.consumed = 2 + 3
        /\ call.got.outcome = "raise"
        /\ ~call.got.hasValue
        /\ CASE call.buf[3] = 2 ->
                  /\ call.got.exc = "ValueError"
                  /\ call.got.msg = "Wrong start address."
             [] call.buf[3] = 3 ->
                  /\ call.got.exc = "ValueError"
                  /\ call.got.msg = "Variable data error."
             [] call.buf[3] = 4 ->
                  /\ call.got.exc = "ValueError"
                  /\ call.got.msg = "Operation error."
             [] OTHER ->
                  /\ call.got.exc = "ConnectionError"
                  /\ call.got.msg = "Unknown read error. Received:"
                  /\ call.got.raw = SubSeq(call.buf, 1, 5)

C6_Witness ==
    /\ ReadOfException
    /\ sent.shape = "exception"
    /\ call.buf[3] = 5
    /\ call.got.exc = "ConnectionError"
    /\ call.got.raw = SubSeq(call.buf, 1, 5)

\* C7: a response whose function byte is neither READ, WRITE_MULTIPLE nor ECHO
\* and has no high bit set (0x06, say) makes read() raise the transport error
\* carrying the raw bytes, whatever follows; never a device error.
C7_UnknownFunctionIsTransportError ==
    /\ call.op = "read"
    /\ Len(call.buf) >= 5
    /\ call.buf[2] \notin {3, 8, 16}
    /\ call.buf[2] < 128
    => /\ call.got.outcome = "raise"
       /\ call.got.exc = "ConnectionError"
       /\ call.got.msg = "Unknown read error. Received:"
       /\ call.got.raw = SubSeq(call.buf, 1, 5)

\* C8: after write("W,r,v1..vk"), read() of the well-formed acknowledgment
\* [address, 0x10, r high, r low, k high, k low] + CRC16 consumes exactly 8
\* bytes, raises nothing and returns no value.
C8_WriteThenAcknowledged ==
    /\ call.op = "read"
    /\ arg.fn = NameW
    /\ sent.shape = "ack"
    /\ sent.damage = "none"
    => LET k == Len(arg.vals)
           ack == <<address, 16, arg.reg \div 256, arg.reg % 256,
                    k \div 256, k % 256>>
       IN  /\ call.buf = ack \o CRC16(ack)
           /\ call.got.consumed = 8
           /\ call.got.outcome = "return"
           /\ ~call.got.hasValue
           /\ rx = <<>>

C8_Witness ==
    /\ call.op = "read"
    /\ arg.fn = NameW
    /\ arg.vals = <<0 - 1, 32767>>
    /\ sent.shape = "ack"
    /\ sent.damage = "none"
    /\ call.got.outcome = "return"
    /\ call.got.consumed = 8

----------------------------------------------------------------------------
(* Claims on the sequence of operations of one instance, checked under     *)
(* Spec                                                                    *)

\* C9: for any sequence of property sets and gets, each transmitted request
\* has had its response completely read before the next request is
\* transmitted: a request is never handed to write_bytes while an earlier
\* request is unanswered or response bytes are unread.
C9_RequestAfterResponseRead ==
    call.op = "write" /\ call.wrote.ok
        => /\ call.unanswered = 0
           /\ call.buf = <<>>

\* C10: a read() asks for the first byte of its response no earlier than
\* read_delay after the previous read() of the instance completed, whether
\* that one decoded read data, a write acknowledgment or an echo.
C10_ReadAfterReadDelay ==
    call.op = "read" /\ call.after.decoded
        => call.began - call.after.ended >= read_delay

\* C11: a write() hands its frame to write_bytes no earlier than
\* write_delay after the previous successful write() finished transmitting:
\* it sleeps max(0, write_delay - time since last_write_timestamp) first,
\* and a successful write() sets last_write_timestamp to the time its
\* transmission finished, while a write() that raised leaves it alone.
C11_WriteAfterWriteDelay ==
    call.op = "write"
        => /\ call.began
                = call.entered
                  + Max(0, write_delay - (call.entered - call.since))
           /\ call.began - call.since >= write_delay
           /\ call.wrote.ok => /\ last_write_timestamp = call.ended
                               /\ call.ended >= call.began
           /\ ~call.wrote.ok => last_write_timestamp = call.since

\* a successful write() that had to sleep after an earlier successful
\* write() whose transmission took time
C11_Witness ==
    /\ call.op = "write"
    /\ call.wrote.ok
    /\ call.since > StartTime
    /\ call.began > call.entered
    /\ call.ended > call.began

----------------------------------------------------------------------------
(* SpecProperty: on one instance at address 1, a property set and then     *)
(* property gets, the controller answering each request                    *)

PropertyValues ==
    {PyBool(TRUE), PyBool(FALSE), PyInt(0), PyInt(1), PyInt(2),
     PyStr("full"), PyStr("integer")}

InitProperty ==
    /\ Constructed(1, 0, 0, 0, Deadline - MaxTransmit)
    /\ arg = NoArg
    /\ crcIn = <<>>
    /\ crcOut = <<>>
    /\ NoTek

\* instance.p = v, before anything else was written or read
SetProperty ==
    \E p \in Settable, v \in PropertyValues :
        /\ call.op = "none"
        /\ Setter(p, v)
        /\ arg' = [NoArg EXCEPT !.prop = p, !.value = v]

\* instance.p
GetProperty == \E p \in Readable : AskWrite(p, GetCommand(p), 0)

NextProperty ==
    \/ SetProperty
    \/ GetProperty
    \/ DeviceAnswer
    \/ AskRead
    \/ CheckSetErrors

SpecProperty == InitProperty /\ [][NextProperty]_vars

\* the state a property set of p leaves
AfterSet(p) == pc.at = "idle" /\ pc.kind = "set" /\ arg.prop = p

\* the set transmitted the WRITE_MULTIPLE frame for one value at register r
TransmittedOne(r, value) ==
    /\ pc.outcome = ""
    /\ call.op = "write"
    /\ call.wrote.ok
    /\ call.wrote.frame
         = Framed(<<1, 16, r \div 256, r % 256, 0, 1, 2, 0, value>>)

\* C12: setting resolution to 'full' on a device with address 1 transmits
\* [1,16,49,6,0,1,2,0,0] + CRC16, setting it to 'integer' transmits the same
\* frame with value 1 (the acknowledgment then being accepted).
C12_ResolutionFrame ==
    AfterSet("resolution")
        => /\ arg.value = PyStr("full") => TransmittedOne(12550, 0)
           /\ arg.value = PyStr("integer") => TransmittedOne(12550, 1)

\* C13: setting the working-setpoint selection to n (0 or 1) transmits
\* [1,16,1,35,0,1,2,0,n] + CRC16 (register 0x0123); getting it transmits
\* the READ frame [1,3,0,5,0,1] + CRC16 and returns the number decoded from
\* the response, so a set of 1 followed by a get answered with
\* [1,3,2,0,1] + CRC16 returns 1.
C13_WorkingSetpoint ==
    /\ AfterSet("selected_setpoint") /\ arg.value \in {PyInt(0), PyInt(1)}
           => TransmittedOne(291, arg.value.val)
    /\ pc.at = "ask" /\ pc.kind = "selected_setpoint"
           => call.wrote.frame = Framed(<<1, 3, 0, 5, 0, 1>>)
    /\ (/\ pc.at = "idle" /\ pc.kind = "selected_setpoint"
        /\ arg.prop = "selected_setpoint" /\ arg.value = PyInt(1)
        /\ sent.bytes = Framed(<<1, 3, 2, 0, 1>>))
           => /\ call.op = "read"
              /\ call.got.outcome = "return"
              /\ call.got.hasValue
              /\ call.got.value = Str(1)

\* the set raised and handed nothing to write()
Rejected == pc.outcome # "" /\ call.op # "write"

----------------------------------------------------------------------------
(* Claims on the READ and ECHO requests, checked under SpecEncode and Spec  *)

\* a write("R,r,n") or write("R,r") with r and n in 0..65535
WriteOfRead ==
    /\ call.op = "write"
    /\ arg.fn = NameR
    /\ arg.reg \in 0..65535
    /\ arg.vals # <<>> => arg.vals[1] \in 0..65535

\* C15: write("R,r,n"), r in decimal or 0x-prefixed hexadecimal, hands
\* write_bytes exactly [a, 0x03, r high, r low, n high, n low] followed by
\* its CRC16, low byte first; write("R,r") sends the same frame with n = 1.
C15_ReadFrame ==
    WriteOfRead =>
        LET n == IF arg.vals = <<>> THEN 1 ELSE arg.vals[1]
            body == <<address, 3, arg.reg \div 256, arg.reg % 256,
                      n \div 256, n % 256>>
            crc == ModbusCRC16(body)
        IN  /\ call.command
                 = <<"R", ",">>
                   \o (IF arg.hex THEN Hex(arg.reg) ELSE Str(arg.reg))
                   \o (IF arg.vals = <<>> THEN <<>> ELSE <<",">> \o Str(n))
            /\ call.wrote.ok
            /\ call.wrote.frame = body \o <<crc % 256, crc \div 256>>
            /\ req = <<call.wrote.frame>>

\* write("R,0x123") on the instance at address 1
C15_Witness ==
    /\ WriteOfRead
    /\ address = 1
    /\ arg.hex
    /\ arg.reg = 291
    /\ arg.vals = <<>>
    /\ call.command = <<"R", ",", "0", "x", "1", "2", "3">>
    /\ DropLastN(req[1], 2) = <<1, 3, 1, 35, 0, 1>>

----------------------------------------------------------------------------
(* SpecPing: one ping(test_data) on a fresh instance, the controller's      *)
(* answer as it arrives, intact, damaged or echoing another value           *)

PingValues == {0, 7, 256, 65535, 65536}

InitPing ==
    /\ \E a \in Addresses : Constructed(a, 0, 0, 0, StartTime)
    /\ arg = NoArg
    /\ crcIn = <<>>
    /\ crcOut = <<>>
    /\ NoTek

PingAny == call.op = "none" /\ \E v \in PingValues : Ping(v)

\* an echo response that carries w
EchoOf(f, w) == Framed(<<f[1], FunctionECHO, 0, 0>> \o ToBytes2(w))

PingArrivals(f) ==
    AnyArrival(f)
    \cup {[shape |-> "echo", frame |-> EchoOf(f, w), damage |-> "value",
           bytes |-> EchoOf(f, w)] :
            w \in {v \in PingValues : v <= 65535 /\ EchoOf(f, v) # f}}

DevicePing == req # <<>> /\ Respond(PingArrivals(Head(req)))

NextPing == PingAny \/ DevicePing \/ AskRead

SpecPing == InitPing /\ [][NextPing]_vars

\* the trailing two bytes are the CRC-16/MODBUS of the rest, low byte first
ValidCRC(bytes) ==
    LET crc == ModbusCRC16(DropLastN(bytes, 2))
    IN  LastN(bytes, 2) = <<crc % 256, crc \div 256>>

\* ping(v), v in 0..65535, has read an echo response
PingReadEcho ==
    /\ pc.at = "idle"
    /\ pc.kind = "ping"
    /\ pc.data \in 0..65535
    /\ call.op = "read"
    /\ sent.shape = "echo"

\* C16: ping(v), v in 0..65535, transmits [address, 0x08, 0, 0, v high,
\* v low] + CRC16 and completes without error exactly when the echo response
\* it reads has a valid CRC and carries v as its 2-byte unsigned big-endian
\* data; read() of an echo response reads 6 bytes after the 2-byte header
\* and returns the decimal string of that unsigned value.
C16_Ping ==
    /\ (pc.kind = "ping" /\ pc.data \in 0..65535 /\ pc.at = "ask")
           => LET body == <<address, 8, 0, 0,
                            pc.data \div 256, pc.data % 256>>
                  crc == ModbusCRC16(body)
              IN  /\ call.op = "write"
                  /\ call.wrote.ok
                  /\ call.wrote.frame = body \o <<crc % 256, crc \div 256>>
    /\ PingReadEcho
           => LET carried == BigEndian(SubSeq(sent.bytes, 5, 6))
              IN  /\ call.buf = sent.bytes
                  /\ call.got.consumed = 2 + 6
                  /\ pc.raised = ""
                        <=> ValidCRC(sent.bytes) /\ carried = pc.data
                  /\ ValidCRC(sent.bytes)
                        => /\ call.got.outcome = "return"
                           /\ call.got.hasValue
                           /\ call.got.value = Str(carried)
                  /\ ~ValidCRC(sent.bytes) => RaisedCRCMismatch

\* ping(65535) completed on the echo of 65535, read as "65535"
C16_Witness ==
    /\ PingReadEcho
    /\ pc.data = 65535
    /\ pc.raised = ""
    /\ sent.damage = "none"
    /\ call.got.value = <<"6", "5", "5", "3", "5">>

\* ping(7) failed its comparison on an intact echo of another value
C16_WitnessOther ==
    /\ PingReadEcho
    /\ pc.data = 7
    /\ sent.damage = "value"
    /\ pc.raised = "AssertionError"

----------------------------------------------------------------------------
(* Tek371A curve tracer (pymeasure/instruments/tektronix/tek371A.py):      *)
(* WaveformPreamble and Curve.  A Python float is the decimal number its   *)
(* text denotes, kept as mantissa m and exponent e (m * 10^e, m without    *)
(* trailing zeros); the binary rounding of float products is left out.     *)

RECURSIVE DecNorm(_, _)
DecNorm(m, e) ==
    IF m = 0 THEN [m |-> 0, e |-> 0]
    ELSE IF m % 10 = 0 THEN DecNorm(m \div 10, e + 1)
    ELSE [m |-> m, e |-> e]

\* int * float
DecTimesInt(k, f) == DecNorm(k * f.m, f.e)

\* float(int)
DecOfInt(k) == DecNorm(k, 0)

\* seq[start:stop] for start >= 0
PySlice(seq, start, stop) ==
    LET n == Len(seq)
        hi == IF stop < 0 THEN Max(0, stop + n) ELSE IF stop > n THEN n ELSE stop
    IN  IF start >= hi THEN <<>> ELSE SubSeq(seq, start + 1, hi)

\* the mutant of CurvePoint: no clamp of a coordinate below its offset
CurvePointUnclamped(wp, n_x, n_y, rp, i) ==
    LET coord_x == FromBytes(PySlice(rp, i, i + n_x)) - wp.horizontal_offset
        coord_y == FromBytes(PySlice(rp, i + n_x, i + n_x + n_y))
                   - wp.vertical_offset
    IN  [coordinates |-> <<coord_x, coord_y>>,
         point |-> <<DecTimesInt(coord_x, wp.x_scale_factor),
                     DecTimesInt(coord_y, wp.y_scale_factor)>>]

\* Curve.__init__, lines 165-189: the point of the stride at offset i
CurvePoint(wp, n_x, n_y, rp, i) ==
    LET x == FromBytes(PySlice(rp, i, i + n_x)) - wp.horizontal_offset
        coord_x == IF x < 0 THEN 0 ELSE x
        y == FromBytes(PySlice(rp, i + n_x, i + n_x + n_y))
             - wp.vertical_offset
        coord_y == IF y < 0 THEN 0 ELSE y
    IN  [coordinates |-> <<coord_x, coord_y>>,
         point |-> <<DecTimesInt(coord_x, wp.x_scale_factor),
                     DecTimesInt(coord_y, wp.y_scale_factor)>>]

\* the mutant of CurveStrides: a stride at every offset with 4 bytes left
CurveStridesEveryOffset(n_x, n_y, rp) ==
    {i \in 0..(Len(rp) - 1) : i <= Len(rp) - (n_x + n_y)}

\* lines 161-165: the offsets i of range(len(...)) that pass the test
CurveStrides(n_x, n_y, rp) ==
    {i \in 0..(Len(rp) - 1) : i % 4 = 0 /\ i <= Len(rp) - (n_x + n_y)}

\* the elements of a set of naturals in increasing order
RECURSIVE Ascending(_)
Ascending(S) ==
    IF S = {} THEN <<>>
    ELSE LET least == CHOOSE i \in S : \A j \in S : i <= j
         IN  <<least>> \o Ascending(S \ {least})

\* Curve.__init__, lines 140-189
Curve(wp, n_bytes_for_head, n_bytes_for_data, n_bytes_for_checksum, n_bytes_for_x_coordinate, n_bytes_for_y_coordinate, raw_curve_data) ==
    LET start_points_coordinates_index == n_bytes_for_head + n_bytes_for_data
        stop_points_coordinates_index ==
            Len(raw_curve_data) - n_bytes_for_checksum
        raw_points_coordinates ==
            PySlice(raw_curve_data, start_points_coordinates_index,
                    stop_points_coordinates_index)
        at == Ascending(CurveStrides(n_bytes_for_x_coordinate,
                                     n_bytes_for_y_coordinate,
                                     raw_points_coordinates))
        each == [k \in 1..Len(at) |->
                    CurvePoint(wp, n_bytes_for_x_coordinate,
                               n_bytes_for_y_coordinate,
                               raw_points_coordinates, at[k])]
    IN  [made |-> TRUE,
         raw_curve_data |-> raw_curve_data,
         raw_points_coordinates |-> raw_points_coordinates,
         points_coordinates |-> [k \in 1..Len(at) |-> each[k].coordinates],
         points |-> [k \in 1..Len(at) |-> each[k].point]]

----------------------------------------------------------------------------
(* Python text as WaveformPreamble.__init__ uses it                        *)

\* text.replace(c, "")
Remove(text, c) == SelectSeq(text, LAMBDA x : x # c)

StartsWith(text, prefix) ==
    Len(text) >= Len(prefix) /\ SubSeq(text, 1, Len(prefix)) = prefix

EndsWith(text, suffix) ==
    /\ Len(text) >= Len(suffix)
    /\ SubSeq(text, Len(text) - Len(suffix) + 1, Len(text)) = suffix

\* text.removeprefix(prefix), text.removesuffix(suffix)
RemovePrefix(text, prefix) ==
    IF StartsWith(text, prefix)
    THEN SubSeq(text, Len(prefix) + 1, Len(text)) ELSE text

RemoveSuffix(text, suffix) ==
    IF EndsWith(text, suffix)
    THEN SubSeq(text, 1, Len(text) - Len(suffix)) ELSE text

\* text.lstrip(" "), text.rstrip(" ")
RECURSIVE LStrip(_)
LStrip(text) ==
    IF text # <<>> /\ Head(text) = " " THEN LStrip(Tail(text)) ELSE text

RECURSIVE RStrip(_)
RStrip(text) ==
    IF text # <<>> /\ text[Len(text)] = " "
    THEN RStrip(SubSeq(text, 1, Len(text) - 1)) ELSE text

\* "sub in text"
HasSub(text, sub) ==
    \E i \in 0..(Len(text) - Len(sub)) :
        SubSeq(text, i + 1, i + Len(sub)) = sub

\* float(text): blanks around, an optional sign, digits with at most one
\* point and at least one digit, an optional exponent; else ValueError
PyFloat(text) ==
    LET bare == RStrip(LStrip(text))
        low == [i \in 1..Len(bare) |-> IF bare[i] = "E" THEN "e" ELSE bare[i]]
        halves == Split(low, "e")
        mantissa == halves[1]
        exponent == IF Len(halves) = 2 THEN Int10(halves[2])
                    ELSE [ok |-> Len(halves) = 1, val |-> 0]
        neg == mantissa # <<>> /\ Head(mantissa) = "-"
        signed == mantissa # <<>> /\ Head(mantissa) \in {"-", "+"}
        body == IF signed THEN Tail(mantissa) ELSE mantissa
        parts == Split(body, ".")
        whole == parts[1]
        frac == IF Len(parts) = 2 THEN parts[2] ELSE <<>>
        good == /\ exponent.ok
                /\ Len(parts) <= 2
                /\ AllIn(whole, Digits)
                /\ AllIn(frac, Digits)
                /\ Len(whole) + Len(frac) >= 1
        digits == DigitsValue(whole \o frac, Digits)
    IN  IF ~good THEN [ok |-> FALSE, val |-> DecOfInt(0)]
        ELSE [ok |-> TRUE,
              val |-> DecNorm(IF neg THEN 0 - digits ELSE digits,
                              exponent.val - Len(frac))]

\* float * float
DecTimes(f, g) == DecNorm(f.m * g.m, f.e + g.e)

----------------------------------------------------------------------------
(* WaveformPreamble.__init__, tek371A.py:63-90                             *)

\* preamble_array[k].split(":")[1].replace(" ", "")
ValueText(array, k) ==
    IF Len(array) <= k THEN [exc |-> "IndexError", text |-> <<>>]
    ELSE LET parts == Split(array[k + 1], ":")
         IN  IF Len(parts) < 2 THEN [exc |-> "IndexError", text |-> <<>>]
             ELSE [exc |-> "", text |-> Remove(parts[2], " ")]

\* int(...) of it
IntValue(array, k) ==
    LET t == ValueText(array, k)
    IN  IF t.exc # "" THEN [exc |-> t.exc, val |-> 0]
        ELSE IF ~Int10(t.text).ok THEN [exc |-> "ValueError", val |-> 0]
        ELSE [exc |-> "", val |-> Int10(t.text).val]

\* float(...) of it
FloatValue(array, k) ==
    LET t == ValueText(array, k)
    IN  IF t.exc # "" THEN [exc |-> t.exc, val |-> DecOfInt(0)]
        ELSE IF ~PyFloat(t.text).ok
        THEN [exc |-> "ValueError", val |-> DecOfInt(0)]
        ELSE [exc |-> "", val |-> PyFloat(t.text).val]

Milli == [m |-> 1, e |-> 0 - 3]

TextStepValue(text) == [exc |-> "", type |-> "str", val |-> DecOfInt(0), text |-> text]
FloatStepValue(f, scale) ==
    IF ~f.ok
    THEN [exc |-> "ValueError", type |-> "str", val |-> DecOfInt(0), text |-> <<>>]
    ELSE [exc |-> "", type |-> "float", val |-> DecTimes(f.val, scale), text |-> <<>>]

\* the mutant of StepValue: the mV branch without its factor
StepValueUnscaled(wf_id, k, label) ==
    IF Len(wf_id) <= k
    THEN [exc |-> "IndexError", type |-> "str", val |-> DecOfInt(0), text |-> <<>>]
    ELSE LET text == LStrip(RemovePrefix(wf_id[k + 1], label))
         IN  IF HasSub(text, <<"m", "V">>)
             THEN FloatStepValue(PyFloat(RemoveSuffix(text, <<"m", "V">>)),
                                 DecOfInt(1))
             ELSE IF HasSub(text, <<"V">>)
             THEN FloatStepValue(PyFloat(RemoveSuffix(text, <<"V">>)),
                                 DecOfInt(1))
             ELSE TextStepValue(text)

\* lines 80-84 and 86-90: wf_id[k] without its label and leading blanks,
\* a float where it holds "mV" or "V", left as text otherwise
StepValue(wf_id, k, label) ==
    IF Len(wf_id) <= k
    THEN [exc |-> "IndexError", type |-> "str", val |-> DecOfInt(0), text |-> <<>>]
    ELSE LET text == LStrip(RemovePrefix(wf_id[k + 1], label))
         IN  IF HasSub(text, <<"m", "V">>)
             THEN FloatStepValue(PyFloat(RemoveSuffix(text, <<"m", "V">>)),
                                 Milli)
             ELSE IF HasSub(text, <<"V">>)
             THEN FloatStepValue(PyFloat(RemoveSuffix(text, <<"V">>)),
                                 DecOfInt(1))
             ELSE TextStepValue(text)

RECURSIVE FirstRaised(_)
FirstRaised(excs) ==
    IF excs = <<>> THEN ""
    ELSE IF Head(excs) # "" THEN Head(excs)
    ELSE FirstRaised(Tail(excs))

\* the mutant of WaveformPreamble: the offsets read from the zero fields
WaveformPreambleZeroFields(array) ==
    LET wf_id == IF array = <<>> THEN <<>> ELSE Split(array[1], "/")
        n_measures_readed == IntValue(array, 2)
        x_scale_factor == FloatValue(array, 4)
        y_scale_factor == FloatValue(array, 8)
        horizontal_offset == IntValue(array, 5)
        vertical_offset == IntValue(array, 9)
        horizontal_units == ValueText(array, 7)
        vertical_units == ValueText(array, 11)
        step_size == StepValue(wf_id, 3, <<"S", "T", "E", "P">>)
        step_offset == StepValue(wf_id, 4, <<"O", "F", "F", "S", "E", "T">>)
    IN  [made |-> TRUE,
         raised |-> FirstRaised(<<IF array = <<>> THEN "IndexError" ELSE "",
                                  n_measures_readed.exc, x_scale_factor.exc,
                                  y_scale_factor.exc, horizontal_offset.exc,
                                  vertical_offset.exc, horizontal_units.exc,
                                  vertical_units.exc, step_size.exc,
                                  step_offset.exc>>),
         n_measures_readed |-> n_measures_readed.val,
         x_scale_factor |-> x_scale_factor.val,
         n_horizontal_resolution_points |-> 1024,
         horizontal_range |-> DecTimesInt(1024, x_scale_factor.val),
         y_scale_factor |-> y_scale_factor.val,
         n_vertical_resolution_points |-> 1024,
         vertical_range |-> DecTimesInt(1024, y_scale_factor.val),
         horizontal_offset |-> horizontal_offset.val,
         vertical_offset |-> vertical_offset.val,
         horizontal_units |-> horizontal_units.text,
         vertical_units |-> vertical_units.text,
         step_size |-> [type |-> step_size.type, val |-> step_size.val,
                        text |-> step_size.text],
         step_offset |-> [type |-> step_offset.type, val |-> step_offset.val,
                          text |-> step_offset.text]]

\* WaveformPreamble(preamble_array): the object, or the first exception its
\* statements raise in their order
WaveformPreamble(array) ==
    LET wf_id == IF array = <<>> THEN <<>> ELSE Split(array[1], "/")
        n_measures_readed == IntValue(array, 2)
        x_scale_factor == FloatValue(array, 4)
        y_scale_factor == FloatValue(array, 8)
        horizontal_offset == IntValue(array, 6)
        vertical_offset == IntValue(array, 10)
        horizontal_units == ValueText(array, 7)
        vertical_units == ValueText(array, 11)
        step_size == StepValue(wf_id, 3, <<"S", "T", "E", "P">>)
        step_offset == StepValue(wf_id, 4, <<"O", "F", "F", "S", "E", "T">>)
    IN  [made |-> TRUE,
         raised |-> FirstRaised(<<IF array = <<>> THEN "IndexError" ELSE "",
                                  n_measures_readed.exc, x_scale_factor.exc,
                                  y_scale_factor.exc, horizontal_offset.exc,
                                  vertical_offset.exc, horizontal_units.exc,
                                  vertical_units.exc, step_size.exc,
                                  step_offset.exc>>),
         n_measures_readed |-> n_measures_readed.val,
         x_scale_factor |-> x_scale_factor.val,
         n_horizontal_resolution_points |-> 1024,
         horizontal_range |-> DecTimesInt(1024, x_scale_factor.val),
         y_scale_factor |-> y_scale_factor.val,
         n_vertical_resolution_points |-> 1024,
         vertical_range |-> DecTimesInt(1024, y_scale_factor.val),
         horizontal_offset |-> horizontal_offset.val,
         vertical_offset |-> vertical_offset.val,
         horizontal_units |-> horizontal_units.text,
         vertical_units |-> vertical_units.text,
         step_size |-> [type |-> step_size.type, val |-> step_size.val,
                        text |-> step_size.text],
         step_offset |-> [type |-> step_offset.type, val |-> step_offset.val,
                          text |-> step_offset.text]]

----------------------------------------------------------------------------
(* The preambles and curves handed to the decoders                         *)

TextWFID ==
    <<"W", "F", "M", "P", "R", "E", " ", "W", "F", "I", "D", ":", "\"",
     "I", "N", "D", "E", "X", " ", "3">>

TextVERT ==
    <<"V", "E", "R", "T", " ", "5", "0", "0", "M", "A">>

TextHORIZ ==
    <<" ", "H", "O", "R", "I", "Z", " ", "1", "V">>

TextBGM ==
    <<"B", "G", "M", " ", "1", "0", "0", "m", "S">>

TextENCDG ==
    <<"E", "N", "C", "D", "G", ":", "B", "I", "N">>

TextNRPT ==
    <<"N", "R", ".", "P", "T", ":">>

TextPTFMT ==
    <<"P", "T", ".", "F", "M", "T", ":", "X", "Y">>

TextXMULT ==
    <<"X", "M", "U", "L", "T", ":">>

TextXZERO ==
    <<"X", "Z", "E", "R", "O", ":", "0">>

TextXOFF ==
    <<"X", "O", "F", "F", ":">>

TextXUNIT ==
    <<"X", "U", "N", "I", "T", ":">>

TextYMULT ==
    <<"Y", "M", "U", "L", "T", ":">>

TextYZERO ==
    <<"Y", "Z", "E", "R", "O", ":", "0">>

TextYOFF ==
    <<"Y", "O", "F", "F", ":">>

TextYUNIT ==
    <<"Y", "U", "N", "I", "T", ":">>

TextSTEP ==
    <<"S", "T", "E", "P">>

TextOFFSET ==
    <<"O", "F", "F", "S", "E", "T">>

CountTexts ==
    {<<"3">>,
     <<" ", "1", " ", "0">>}

ScaleTexts ==
    {<<"1", ".", "0">>,
     <<"+", "1", ".", "0", "E", "-", "2">>,
     <<" ", "+", "5", ".", "0", "E", "-", "3">>}

OffsetTexts ==
    {<<"0">>,
     <<" ", "1", "2">>,
     <<"3", "0", "0">>}

StepTexts ==
    {<<" ", "5", "V">>,
     <<" ", "5", "0", "0", "m", "V">>,
     <<" ", " ", " ", "2", "m", "V">>,
     <<"5", "m", "A">>}

StepOffsetTexts ==
    {<<" ", "0", ".", "0", "0", "V">>,
     <<" ", "-", "1", ".", "5", "0", "V">>,
     <<" ", "1", "0", "m", "V">>}

\* a preamble as the instrument sends it, split at its commas
PreambleOf(c) ==
    <<Join(<<TextWFID, TextVERT, TextHORIZ, TextSTEP \o c.step,
             TextOFFSET \o c.offset, TextBGM>>, "/"),
      TextENCDG, TextNRPT \o c.count, TextPTFMT,
      TextXMULT \o c.xmult, TextXZERO, TextXOFF \o c.xoff,
      TextXUNIT \o c.xunit,
      TextYMULT \o c.ymult, TextYZERO, TextYOFF \o c.yoff,
      TextYUNIT \o c.yunit>>

PreambleConfigs ==
    [count : CountTexts, xmult : ScaleTexts, xoff : OffsetTexts,
     xunit : {<<"V">>}, ymult : {<<"1", ".", "0">>, <<"+", "5", ".", "0", "E", "-", "3">>},
     yoff : {<<"0">>, <<"1", "5">>}, yunit : {<<"A">>, <<" ", "m", "A">>},
     step : StepTexts, offset : StepOffsetTexts]

TypicalConfig ==
    [count |-> <<"3">>, xmult |-> <<"+", "1", ".", "0", "E", "-", "2">>,
     xoff |-> <<" ", "1", "2">>, xunit |-> <<"V">>,
     ymult |-> <<"+", "5", ".", "0", "E", "-", "3">>, yoff |-> <<"1", "5">>,
     yunit |-> <<"A">>, step |-> <<" ", "5", "V">>,
     offset |-> <<" ", "0", ".", "0", "0", "V">>]

\* preambles WaveformPreamble cannot parse
MalformedArrays ==
    LET typical == PreambleOf(TypicalConfig)
    IN  {<<>>,
         SubSeq(typical, 1, 11),
         [typical EXCEPT ![7] = <<"X", "O", "F", "F", " ", "1", "2">>],
         [typical EXCEPT ![3] = TextNRPT \o <<"x">>],
         [typical EXCEPT ![5] = TextXMULT \o <<"1", ".", "0", ".", "0">>],
         [typical EXCEPT ![1] = TextWFID],
         PreambleOf([TypicalConfig EXCEPT !.step = <<" ", "5", "u", "V">>])}

PreambleArrays ==
    {PreambleOf(c) : c \in PreambleConfigs} \cup MalformedArrays

----------------------------------------------------------------------------
(* SpecPreamble: WaveformPreamble(preamble_array) for each preamble        *)

\* the instrument set as c sends PreambleOf(c)
PreambleFrom(c) ==
    /\ preamble_array = PreambleOf(c)
    /\ arg = [NoArg EXCEPT !.prop = "preamble", !.value = c]

InitPreamble ==
    /\ Constructed(1, 0, 0, 0, StartTime)
    /\ crcIn = <<>>
    /\ crcOut = <<>>
    /\ waveform_preamble = NoPreamble
    /\ curve = NoCurve
    /\ NoLink371
    /\ NoSrq
    /\ \/ \E c \in PreambleConfigs : PreambleFrom(c)
       \/ preamble_array \in MalformedArrays /\ arg = NoArg

\* get_curve, line 740: WaveformPreamble(self.waveform_preamble), the
\* property read with its "WFMpre?" query (line 677)
ParsePreamble ==
    /\ ~waveform_preamble.made
    /\ written' = Append(written, "WFMpre?")
    /\ waveform_preamble' = WaveformPreamble(preamble_array)
    /\ UNCHANGED <<address, write_delay, read_delay, query_delay,
                   last_write_timestamp, last_read_timestamp, now, req, rx,
                   call, sent, prev, arg, pc, crcIn, crcOut, preamble_array,
                   curve, bytes_count, srqs>>

SpecPreamble == InitPreamble /\ [][ParsePreamble]_vars

\* what the texts of the preambles denote
CountOf(t) == IF t = <<"3">> THEN 3 ELSE 10

ScaleOf(t) ==
    IF t = <<"1", ".", "0">> THEN [m |-> 1, e |-> 0]
    ELSE IF t = <<"+", "1", ".", "0", "E", "-", "2">> THEN [m |-> 1, e |-> 0 - 2]
    ELSE [m |-> 5, e |-> 0 - 3]

\* 1024 times the scale
RangeOf(t) ==
    IF t = <<"1", ".", "0">> THEN [m |-> 1024, e |-> 0]
    ELSE IF t = <<"+", "1", ".", "0", "E", "-", "2">> THEN [m |-> 1024, e |-> 0 - 2]
    ELSE [m |-> 512, e |-> 0 - 2]

OffsetOf(t) ==
    IF t = <<"0">> THEN 0
    ELSE IF t = <<" ", "1", "2">> THEN 12
    ELSE IF t = <<"1", "5">> THEN 15
    ELSE 300

UnitsOf(t) == IF t = <<" ", "m", "A">> THEN <<"m", "A">> ELSE t

\* a preamble of PreambleConfigs has been parsed
ParsedFrom == waveform_preamble.made /\ arg.prop = "preamble"

\* C19: WaveformPreamble reads field 2 as the sample count, field 4 as the
\* x scale factor, field 6 as the horizontal offset, field 7 as the
\* horizontal units, field 8 as the y scale factor, field 10 as the vertical
\* offset and field 11 as the vertical units, each after the colon and
\* without embedded spaces; the ranges are the scale factors times 1024;
\* parsing the same fields again gives a field-equal record.
C19_PreambleFields ==
    ParsedFrom =>
        LET c == arg.value
            wp == waveform_preamble
        IN  /\ wp.raised = ""
            /\ preamble_array[3] = TextNRPT \o c.count
            /\ wp.n_measures_readed = CountOf(c.count)
            /\ preamble_array[5] = TextXMULT \o c.xmult
            /\ wp.x_scale_factor = ScaleOf(c.xmult)
            /\ preamble_array[7] = TextXOFF \o c.xoff
            /\ wp.horizontal_offset = OffsetOf(c.xoff)
            /\ preamble_array[8] = TextXUNIT \o c.xunit
            /\ wp.horizontal_units = UnitsOf(c.xunit)
            /\ preamble_array[9] = TextYMULT \o c.ymult
            /\ wp.y_scale_factor = ScaleOf(c.ymult)
            /\ preamble_array[11] = TextYOFF \o c.yoff
            /\ wp.vertical_offset = OffsetOf(c.yoff)
            /\ preamble_array[12] = TextYUNIT \o c.yunit
            /\ wp.vertical_units = UnitsOf(c.yunit)
            /\ wp.horizontal_range = RangeOf(c.xmult)
            /\ wp.vertical_range = RangeOf(c.ymult)
            /\ WaveformPreamble(preamble_array) = wp

\* the typical preamble parsed: 3 points, 0.01 V and 0.005 A per count,
\* offsets 12 and 15
C19_Witness ==
    /\ ParsedFrom
    /\ arg.value = TypicalConfig
    /\ waveform_preamble.n_measures_readed = 3
    /\ waveform_preamble.x_scale_factor = [m |-> 1, e |-> 0 - 2]
    /\ waveform_preamble.horizontal_offset = 12
    /\ waveform_preamble.vertical_offset = 15
    /\ waveform_preamble.vertical_range = [m |-> 512, e |-> 0 - 2]

\* the volts a step text denotes, for a number followed by "mV" or "V"
VoltsOf(t) ==
    CASE t = <<" ", "5", "V">> -> [m |-> 5, e |-> 0]
      [] t = <<" ", "5", "0", "0", "m", "V">> -> [m |-> 5, e |-> 0 - 1]
      [] t = <<" ", " ", " ", "2", "m", "V">> -> [m |-> 2, e |-> 0 - 3]
      [] t = <<" ", "0", ".", "0", "0", "V">> -> [m |-> 0, e |-> 0]
      [] t = <<" ", "-", "1", ".", "5", "0", "V">> -> [m |-> 0 - 15, e |-> 0 - 1]
      [] t = <<" ", "1", "0", "m", "V">> -> [m |-> 1, e |-> 0 - 2]

\* a number followed by "mV" or "V"
InVolts(t) == EndsWith(t, <<"V">>) /\ ~EndsWith(t, <<"u", "V">>)

\* C20: WaveformPreamble derives the step size from the 4th slash-separated
\* segment of field 0 without its "STEP" label and the step offset from the
\* 5th segment without its label: a number followed by "mV" yields that
\* number times 1e-3, a number followed by "V" yields that number, so that
\* step_size and step_offset are then numbers in volts.
C20_StepInVolts ==
    ParsedFrom =>
        LET c == arg.value
            wp == waveform_preamble
            wf_id == Split(preamble_array[1], "/")
        IN  /\ wf_id[4] = TextSTEP \o c.step
            /\ wf_id[5] = TextOFFSET \o c.offset
            /\ InVolts(c.step)
                  => /\ wp.step_size.type = "float"
                     /\ wp.step_size.val = VoltsOf(c.step)
            /\ InVolts(c.offset)
                  => /\ wp.step_offset.type = "float"
                     /\ wp.step_offset.val = VoltsOf(c.offset)

\* "STEP 500mV" and "OFFSET -1.50V" parsed as 0.5 and -1.5
C20_Witness ==
    /\ ParsedFrom
    /\ arg.value.step = <<" ", "5", "0", "0", "m", "V">>
    /\ arg.value.offset = <<" ", "-", "1", ".", "5", "0", "V">>
    /\ waveform_preamble.step_size.type = "float"
    /\ waveform_preamble.step_size.val = [m |-> 5, e |-> 0 - 1]
    /\ waveform_preamble.step_offset.val = [m |-> 0 - 15, e |-> 0 - 1]

----------------------------------------------------------------------------
(* SpecCurve: get_curve's two constructions, WaveformPreamble and then     *)
(* Curve, for each preamble and each buffer read from the instrument       *)

\* get_curve, lines 742-746
curve_head_len == 25
bytes_for_data_len == 2
bytes_for_checksum == 1
bytes_per_x_coordinate_point == 2
bytes_per_y_coordinate_point == 2

MaxPoints == 2

CurveConfigs ==
    {[TypicalConfig EXCEPT !.count = n, !.xmult = f[1], !.ymult = f[2],
                           !.xoff = x, !.yoff = y] :
        n \in {<<"1">>, <<"2">>, <<"3">>},
        f \in {<<<<"1", ".", "0">>, <<"1", ".", "0">>>>,
               <<<<"+", "1", ".", "0", "E", "-", "2">>,
                 <<"+", "5", ".", "0", "E", "-", "3">>>>},
        x \in OffsetTexts, y \in {<<"0">>, <<"1", "5">>}}

\* the 4 bytes of a point: (10, 20), (300, 0), (65535, 11), (11, 65535)
CurveStrideBytes ==
    {<<0, 10, 0, 20>>, <<1, 44, 0, 0>>, <<255, 255, 0, 11>>,
     <<0, 11, 255, 255>>}

RECURSIVE Concat(_)
Concat(seqs) == IF seqs = <<>> THEN <<>> ELSE Head(seqs) \o Concat(Tail(seqs))

\* point data: up to MaxPoints points, then 0 to 3 bytes more
PointDatas ==
    {Concat(ps) \o [i \in 1..extra |-> 7] :
        ps \in UNION {[1..n -> CurveStrideBytes] : n \in 0..MaxPoints},
        extra \in 0..3}

\* head, length field and checksum around the point data
Envelopes ==
    {[head |-> [i \in 1..curve_head_len |-> 67], length |-> <<0, 0>>,
      checksum |-> <<0>>],
     [head |-> [i \in 1..curve_head_len |-> i], length |-> <<16, 1>>,
      checksum |-> <<255>>]}

RawCurves ==
    {e.head \o e.length \o pd \o e.checksum :
        e \in Envelopes, pd \in PointDatas}
    \cup {[i \in 1..n |-> 1] : n \in {0, 10, 27}}

InitCurve ==
    /\ Constructed(1, 0, 0, 0, StartTime)
    /\ crcIn = <<>>
    /\ crcOut = <<>>
    /\ waveform_preamble = NoPreamble
    /\ curve = NoCurve
    /\ NoLink371
    /\ NoSrq
    /\ \E c \in CurveConfigs : PreambleFrom(c)

\* the mutant of BytesToRead: the checksum byte left out
BytesToReadNoChecksum(n_measures_readed) ==
    curve_head_len + bytes_for_data_len
    + n_measures_readed * (bytes_per_y_coordinate_point
                           + bytes_per_x_coordinate_point)

\* get_curve, lines 747-753: the argument of self.curve
BytesToRead(n_measures_readed) ==
    curve_head_len + bytes_for_data_len
    + n_measures_readed * (bytes_per_y_coordinate_point
                           + bytes_per_x_coordinate_point)
    + bytes_for_checksum

\* get_curve, lines 747-763: self.curve(...) writes "CURve?" and reads up to
\* bytes_count bytes (lines 707-711), Curve(waveform_preamble, 25, 2, 1, 2,
\* 2, raw_data) decodes what the instrument returned
DecodeCurve ==
    /\ waveform_preamble.made
    /\ waveform_preamble.raised = ""
    /\ ~curve.made
    /\ written' = Append(written, "CURve?")
    /\ bytes_count' = BytesToRead(waveform_preamble.n_measures_readed)
    /\ \E raw_data \in RawCurves :
          /\ Len(raw_data) <= bytes_count'
          /\ curve' = Curve(waveform_preamble, curve_head_len,
                            bytes_for_data_len, bytes_for_checksum,
                            bytes_per_x_coordinate_point,
                            bytes_per_y_coordinate_point, raw_data)
    /\ UNCHANGED <<address, write_delay, read_delay, query_delay,
                   last_write_timestamp, last_read_timestamp, now, req, rx,
                   call, sent, prev, arg, pc, crcIn, crcOut, preamble_array,
                   waveform_preamble, srqs>>

NextCurve == ParsePreamble \/ DecodeCurve

SpecCurve == InitCurve /\ [][NextCurve]_vars

\* the bytes after the 25-byte head and the 2-byte length field and before
\* the final checksum byte
PointData(raw) ==
    IF Len(raw) >= 28 THEN SubSeq(raw, 28, Len(raw) - 1) ELSE <<>>

\* raw X and raw Y of the k-th 4-byte stride of pd
RawX(pd, k) == BigEndian(SubSeq(pd, 4 * k - 3, 4 * k - 2))
RawY(pd, k) == BigEndian(SubSeq(pd, 4 * k - 1, 4 * k))

\* C17: point_data is the bytes after the 25-byte head and the 2-byte length
\* field and before the checksum byte; the decoder produces exactly
\* floor(len(point_data) / 4) points, one per 4-byte stride at the offsets
\* that are multiples of 4, in payload order, from raw X = the stride's
\* first 2 bytes and raw Y = its next 2 bytes, unsigned big-endian; the two
\* lists have the same length and index-aligned entries; head, length field
\* and checksum do not affect the result.
C17_CurveStrides ==
    curve.made =>
        LET pd == PointData(curve.raw_curve_data)
            n == Len(pd) \div 4
            wp == waveform_preamble
        IN  /\ curve.raw_points_coordinates = pd
            /\ Len(curve.points_coordinates) = n
            /\ Len(curve.points) = n
            /\ \A k \in 1..n :
                  /\ curve.points_coordinates[k]
                       = <<Max(0, RawX(pd, k) - wp.horizontal_offset),
                           Max(0, RawY(pd, k) - wp.vertical_offset)>>
                  /\ curve.points[k]
                       = <<DecTimesInt(curve.points_coordinates[k][1],
                                       wp.x_scale_factor),
                           DecTimesInt(curve.points_coordinates[k][2],
                                       wp.y_scale_factor)>>

\* two points and two bytes more decoded, the second (65535, 11)
C17_Witness ==
    /\ curve.made
    /\ Len(curve.raw_curve_data) = 25 + 2 + 10 + 1
    /\ Len(curve.points) = 2
    /\ waveform_preamble.horizontal_offset = 0
    /\ waveform_preamble.vertical_offset = 0
    /\ curve.points_coordinates[1] = <<10, 20>>
    /\ curve.points_coordinates[2] = <<65535, 11>>

\* C18: for each decoded point coordX = max(0, rawX - horizontal_offset) and
\* coordY = max(0, rawY - vertical_offset), the calibrated point is
\* (coordX * x_scale_factor, coordY * y_scale_factor), and no integer
\* coordinate is negative; with both scale factors 1.0, both offsets 0 and
\* point_data [0, 10, 0, 20] the result is exactly one pair, raw (10, 20)
\* and calibrated (10.0, 20.0).
C18_ClampedAndScaled ==
    curve.made =>
        LET pd == PointData(curve.raw_curve_data)
            wp == waveform_preamble
            One == [m |-> 1, e |-> 0]
        IN  /\ \A k \in 1..Len(curve.points_coordinates) :
                  LET coord == curve.points_coordinates[k]
                      dx == RawX(pd, k) - wp.horizontal_offset
                      dy == RawY(pd, k) - wp.vertical_offset
                  IN  /\ coord[1] >= 0
                      /\ coord[2] >= 0
                      /\ coord[1] = (IF dx < 0 THEN 0 ELSE dx)
                      /\ coord[2] = (IF dy < 0 THEN 0 ELSE dy)
                      /\ curve.points[k][1]
                           = DecTimesInt(coord[1], wp.x_scale_factor)
                      /\ curve.points[k][2]
                           = DecTimesInt(coord[2], wp.y_scale_factor)
            /\ (/\ wp.x_scale_factor = One
                 /\ wp.y_scale_factor = One
                 /\ wp.horizontal_offset = 0
                 /\ wp.vertical_offset = 0
                 /\ pd = <<0, 10, 0, 20>>)
               => (/\ curve.points_coordinates = <<<<10, 20>>>>
                   /\ curve.points = <<<<[m |-> 1, e |-> 1],
                                         [m |-> 2, e |-> 1]>>>>)

\* a point (10, 20) read with offsets 12 and 15: X, below its offset, is
\* decoded to 0 and Y to 20 - 15
C18_Witness ==
    /\ curve.made
    /\ waveform_preamble.horizontal_offset = 12
    /\ waveform_preamble.vertical_offset = 15
    /\ Len(curve.points_coordinates) >= 1
    /\ SubSeq(PointData(curve.raw_curve_data), 1, 4) = <<0, 10, 0, 20>>
    /\ curve.points_coordinates[1] = <<0, 5>>

\* the example of the text: scale factors 1.0, offsets 0, one point (10, 20)
C18_WitnessExample ==
    /\ curve.made
    /\ waveform_preamble.x_scale_factor = [m |-> 1, e |-> 0]
    /\ waveform_preamble.y_scale_factor = [m |-> 1, e |-> 0]
    /\ waveform_preamble.horizontal_offset = 0
    /\ waveform_preamble.vertical_offset = 0
    /\ PointData(curve.raw_curve_data) = <<0, 10, 0, 20>>
    /\ Len(curve.points) = 1

----------------------------------------------------------------------------
(* Malformed preambles                                                     *)

\* C21: constructing a WaveformPreamble from a field list in which a field
\* it consumes is malformed (no colon in field 2, 4, 6, 7, 8, 10 or 11, a
\* non-numeric count, scale factor or offset, a step size or step offset
\* that is not a number followed by mV or V) raises and yields no record;
\* no constructed record holds an unparsed string in place of a numeric
\* field.
C21_MalformedRaises ==
    waveform_preamble.made =>
        /\ preamble_array \in MalformedArrays
              => waveform_preamble.raised # ""
        /\ (arg.prop = "preamble"
             /\ ~(InVolts(arg.value.step) /\ InVolts(arg.value.offset)))
              => waveform_preamble.raised # ""
        /\ waveform_preamble.raised = ""
              => /\ waveform_preamble.step_size.type = "float"
                 /\ waveform_preamble.step_offset.type = "float"

----------------------------------------------------------------------------
(* SpecSrq: activate_srq, wait_for_srq in the calling thread and the       *)
(* service-request handlers VISA runs in its own thread                    *)

MaxRequests == 3
MaxActivate == 2

\* what the service-request operations leave alone
notSrq == <<address, write_delay, read_delay, query_delay,
            last_write_timestamp, last_read_timestamp, now, req, rx, call,
            sent, prev, arg, pc, crcIn, crcOut, preamble_array,
            waveform_preamble, curve, link371>>

InitSrq ==
    /\ Constructed(1, 0, 0, 0, StartTime)
    /\ arg = NoArg
    /\ crcIn = <<>>
    /\ crcOut = <<>>
    /\ NoTek

\* activate_srq, lines 810-828: one more handler installed (none is ever
\* uninstalled) and the event enabled; called by the thread that also calls
\* wait_for_srq
ActivateSrq ==
    /\ waiter = "idle"
    /\ installed < MaxActivate
    /\ installed' = installed + 1
    /\ enabled' = TRUE
    /\ UNCHANGED <<srq_called, dispatch, waiter, requests, returns, flagSets,
                   consumed>>
    /\ UNCHANGED notSrq

\* the instrument raises a service request: VISA calls every installed
\* handler if the event is enabled and discards the request if it is not
RaiseSrq ==
    /\ requests < MaxRequests
    /\ requests' = requests + 1
    /\ dispatch' = (IF enabled THEN dispatch + installed ELSE dispatch)
    /\ UNCHANGED <<srq_called, installed, enabled, waiter, returns, flagSets,
                   consumed>>
    /\ UNCHANGED notSrq

\* event_handler, lines 815-818: the flag set and the event disabled; the
\* handlers still to be called for the request are called or, the event now
\* being disabled, dropped
EventHandler ==
    /\ dispatch > 0
    /\ srq_called' = TRUE
    /\ enabled' = FALSE
    /\ dispatch' \in {dispatch - 1, 0}
    /\ flagSets' = flagSets + 1
    /\ UNCHANGED <<installed, waiter, requests, returns, consumed>>
    /\ UNCHANGED notSrq

\* wait_for_srq is entered
WaitCall ==
    /\ waiter = "idle"
    /\ waiter' = "test"
    /\ UNCHANGED <<srq_called, installed, enabled, dispatch, requests,
                   returns, flagSets, consumed>>
    /\ UNCHANGED notSrq

\* the mutant of WaitTest: the loop left without a look at the flag
WaitTestBlind ==
    /\ waiter = "test"
    /\ waiter' = "clear"
    /\ UNCHANGED <<srq_called, installed, enabled, dispatch, requests,
                   returns, flagSets, consumed>>
    /\ UNCHANGED notSrq

\* line 806: while not self.srq_called
WaitTest ==
    /\ waiter = "test"
    /\ waiter' = (IF srq_called THEN "clear" ELSE "sleep")
    /\ UNCHANGED <<srq_called, installed, enabled, dispatch, requests,
                   returns, flagSets, consumed>>
    /\ UNCHANGED notSrq

\* line 807: time.sleep(0.1)
WaitSleep ==
    /\ waiter = "sleep"
    /\ waiter' = "test"
    /\ UNCHANGED <<srq_called, installed, enabled, dispatch, requests,
                   returns, flagSets, consumed>>
    /\ UNCHANGED notSrq

\* line 808: self.srq_called = False, and the return
WaitClear ==
    /\ waiter = "clear"
    /\ srq_called' = FALSE
    /\ waiter' = "idle"
    /\ returns' = returns + 1
    /\ flagSets' = 0
    /\ consumed' = requests
    /\ UNCHANGED <<installed, enabled, dispatch, requests>>
    /\ UNCHANGED notSrq

NextSrq ==
    \/ ActivateSrq
    \/ RaiseSrq
    \/ EventHandler
    \/ WaitCall
    \/ WaitTest
    \/ WaitSleep
    \/ WaitClear

SpecSrq == InitSrq /\ [][NextSrq]_vars

\* the calling thread and the VISA thread keep running
FairSpecSrq ==
    /\ SpecSrq
    /\ WF_vars(WaitTest)
    /\ WF_vars(WaitSleep)
    /\ WF_vars(WaitClear)
    /\ WF_vars(EventHandler)

\* C22: wait_for_srq blocks until the callback installed by activate_srq has
\* set srq_called: it never returns while the flag has not been set since
\* it was last cleared, with no callback it never returns, and once the
\* callback has set the flag, before or during the call, it eventually
\* returns and leaves srq_called False.
C22_WaitForSrq ==
    /\ [][returns' # returns
            => flagSets > 0 /\ srq_called /\ ~srq_called']_vars
    /\ [](installed = 0 => returns = 0)
    /\ (waiter \in {"test", "sleep"} /\ srq_called)
          ~> (waiter = "idle" /\ ~srq_called)

\* wait_for_srq has returned once, after one request, and left the flag
\* False
C22_Witness ==
    /\ returns = 1
    /\ requests = 1
    /\ installed = 1
    /\ waiter = "idle"
    /\ ~srq_called

\* C24: for any interleaving of activate_srq, wait_for_srq and callbacks the
\* number of returns of wait_for_srq never exceeds the number of service
\* requests the instrument has raised, also when activate_srq has been
\* called more than once and several handlers are installed.
C24_ReturnsWithinRequests == returns <= requests

\* C25: after one activate_srq and a first service request consumed by
\* wait_for_srq, a second service request makes a second wait_for_srq
\* eventually return, without activate_srq being called again.
C25_SecondRequestReturns ==
    (installed = 1 /\ returns = 1 /\ requests > consumed
     /\ waiter \in {"test", "sleep"})
        ~> (returns >= 2 \/ installed > 1)

----------------------------------------------------------------------------
(* Framing of read()                                                       *)

\* C23: after any read(), whether it returns or raises, the number of bytes
\* it consumed equals the length of the response frame the device sent, so
\* that the next read() starts at the first byte of the next frame: for read
\* responses, write acknowledgments, echo responses, exception responses
\* and responses with any other function code.
C23_ReadConsumesFrame ==
    (call.op = "read" /\ call.buf = sent.bytes)
        => /\ call.got.consumed = Len(sent.bytes)
           /\ rx = <<>>

----------------------------------------------------------------------------
(* Values through write() and read()                                       *)

\* write() raised with nothing handed to write_bytes and the timestamp kept
WriteRefused ==
    /\ ~call.wrote.ok
    /\ req = <<>>
    /\ last_write_timestamp = call.since

\* C26: for every integer v in -32768..32767 the two value bytes write()
\* emits for v in a WRITE frame, returned as the data of a 2-byte READ
\* response with a valid CRC, make read() return the decimal string of v;
\* for every v outside that range, and for every command whose function
\* name is not R, W or ECHO, write() raises before any byte is handed to
\* write_bytes and leaves last_write_timestamp unchanged.
C26_ValueRoundTrip ==
    call.op = "write" =>
        /\ (arg.fn = NameW /\ arg.reg = 291 /\ Len(arg.vals) = 1)
              => LET v == arg.vals[1]
                 IN  IF v >= 0 - 32768 /\ v <= 32767
                     THEN /\ call.wrote.ok
                          /\ req = <<call.wrote.frame>>
                          /\ LET bytes == SubSeq(call.wrote.frame, 8, 9)
                                 got == ReadDecode(ReadResponse(address, bytes))
                             IN  /\ got.outcome = "return"
                                 /\ got.value = Str(v)
                     ELSE WriteRefused
        /\ arg.fn \notin {NameR, NameW, NameECHO} => WriteRefused

----------------------------------------------------------------------------
(* get_curve: what it asks the instrument for                              *)

\* the sample count the preamble text states
SamplesOf(t) == IF t = <<"1">> THEN 1 ELSE IF t = <<"2">> THEN 2 ELSE 3

\* C27: get_curve first obtains the preamble and then requests exactly
\* 25 + 2 + 4*n + 1 bytes with a single CURve? query, n being the sample
\* count parsed from the preamble; when the instrument returns that many
\* bytes the Curve holds exactly n points, and when it returns fewer the
\* Curve holds floor((returned - 28) / 4) points, none if fewer than 32
\* bytes were returned.
C27_GetCurve ==
    curve.made =>
        LET n == SamplesOf(arg.value.count)
            returned == Len(curve.raw_curve_data)
        IN  /\ written = <<"WFMpre?", "CURve?">>
            /\ bytes_count = 25 + 2 + 4 * n + 1
            /\ returned <= bytes_count
            /\ returned = bytes_count => Len(curve.points) = n
            /\ returned < bytes_count
                  => Len(curve.points)
                       = (IF returned < 32 THEN 0 ELSE (returned - 28) \div 4)
            /\ Len(curve.points_coordinates) = Len(curve.points)

\* 36 bytes asked for 2 samples and returned: 2 points
C27_Witness ==
    /\ curve.made
    /\ arg.value.count = <<"2">>
    /\ bytes_count = 36
    /\ Len(curve.raw_curve_data) = 36
    /\ Len(curve.points) = 2

\* 40 bytes asked for 3 samples, 35 returned: 1 point
C27_WitnessShort ==
    /\ curve.made
    /\ bytes_count = 40
    /\ Len(curve.raw_curve_data) = 35
    /\ Len(curve.points) = 1

====
